---- MODULE Spec2Model ----
(***************************************************************************)
(* Model of the JPEG XL batch converter: the caller (JxlConverterApp,      *)
(* src/src/app.rs), the worker thread running ConversionEngine::           *)
(* convert_batch / decode_batch (src/src/engine.rs), the mpsc progress     *)
(* channel between them and the shared AtomicBool cancellation flag.       *)
(*                                                                         *)
(* A path is a sequence of components, the first one the root of its       *)
(* volume (a drive prefix such as C:); a component is a sequence of        *)
(* one-character strings, so that Path::extension and to_lowercase are     *)
(* computed, not looked up.  log_entries, scroll_to_bottom and the         *)
(* rendering are display only and are left out.                            *)
(***************************************************************************)
EXTENDS Naturals, Sequences, FiniteSets, TLC

VARIABLES
    app,          \* JxlConverterApp: the caller's fields
    cancel_flag,  \* the Arc<AtomicBool> shared by the caller and the worker
    chan,         \* the mpsc channel: messages sent and not yet received
    w,            \* the worker thread: its engine, its arguments and locals
    hist          \* history of the current job (observation only)

vars == <<app, cancel_flag, chan, w, hist>>

\* Option<T>: None is the empty sequence, Some(v) the sequence holding v.
None == <<>>

Some(v) == <<v>>

Unwrap(o) == o[1]

\* --------------------------------------------------------------- bounds

\* Largest number of entries the user has selected when the model starts.
MaxSel == 2

\* Largest number of edits the user makes to the tabs while jobs run.
MaxEdits == 1

\* ---------------------------------------------------------------- paths

\* Path::parent: the path without its last component; None for a bare
\* volume root (and for the empty path).
parent(p) == IF Len(p) <= 1 THEN None ELSE Some(SubSeq(p, 1, Len(p) - 1))

\* Path::file_name: the last component.
file_name(p) == p[Len(p)]

\* Path::starts_with: whole components of base are a prefix of p.
starts_with(p, base) ==
    /\ Len(base) <= Len(p)
    /\ SubSeq(p, 1, Len(base)) = base

\* Path::join for a relative right-hand side.
join(p, rel) == p \o rel

\* Positions of '.' in a file name.
DotPositions(name) == {i \in 1..Len(name) : name[i] = "."}

LastDot(name) == CHOOSE i \in DotPositions(name) :
                     \A j \in DotPositions(name) : j <= i

\* Path::extension of a file name: None when there is no '.', or when the
\* only '.' is the first character; else the part after the last '.'.
extension(name) ==
    IF DotPositions(name) = {} \/ LastDot(name) = 1
    THEN None
    ELSE Some(SubSeq(name, LastDot(name) + 1, Len(name)))

\* The part of a file name before its extension (Path::file_stem).
file_stem(name) ==
    IF DotPositions(name) = {} \/ LastDot(name) = 1
    THEN name
    ELSE SubSeq(name, 1, LastDot(name) - 1)

\* Path::with_extension: the file name becomes its stem, a '.', and the
\* new extension; a path without a file name is left as it is.
with_extension(p, ext) ==
    IF Len(p) <= 1 THEN p
    ELSE join(Unwrap(parent(p)), <<file_stem(file_name(p)) \o <<".">> \o ext>>)

\* Path::strip_prefix: the components after base, or None (an Err).
strip_prefix(p, base) ==
    IF starts_with(p, base) THEN Some(SubSeq(p, Len(base) + 1, Len(p))) ELSE None

LowerOf == [c \in {"B", "E", "F", "G", "I", "J", "L", "M", "N", "P", "T", "W", "X"} |->
              CASE c = "B" -> "b" [] c = "E" -> "e" [] c = "F" -> "f"
                [] c = "G" -> "g" [] c = "I" -> "i" [] c = "J" -> "j"
                [] c = "L" -> "l" [] c = "M" -> "m" [] c = "N" -> "n"
                [] c = "P" -> "p" [] c = "T" -> "t" [] c = "W" -> "w"
                [] c = "X" -> "x"]

\* str::to_lowercase, character by character.
to_lowercase(s) ==
    [i \in 1..Len(s) |-> IF s[i] \in DOMAIN LowerOf THEN LowerOf[s[i]] ELSE s[i]]

\* ----------------------------------------------------------- filesystem

\* The files and directories of the modelled disk, in the order a
\* directory walk yields them (a directory before its content).
VolC == <<"C", ":">>

VolD == <<"D", ":">>

\* The root of a volume without a drive prefix.
Root == <<"/">>

FsListing == <<
    [path |-> <<VolC, <<"a">> >>,                                 kind |-> "dir"],
    [path |-> <<VolC, <<"a">>, <<"x", ".", "p", "n", "g">> >>,    kind |-> "file"],
    [path |-> <<VolC, <<"a">>, <<"n", ".", "t", "x", "t">> >>,    kind |-> "file"],
    [path |-> <<VolC, <<"a">>, <<"s">> >>,                        kind |-> "dir"],
    [path |-> <<VolC, <<"a">>, <<"s">>, <<"y", ".", "J", "P", "E", "G">> >>,
                                                                  kind |-> "file"],
    [path |-> <<VolC, <<"b">> >>,                                 kind |-> "dir"],
    [path |-> <<VolC, <<"b">>, <<"z", ".", "j", "x", "l">> >>,    kind |-> "file"],
    [path |-> <<VolC, <<"b">>, <<"t">> >>,                        kind |-> "dir"],
    [path |-> <<VolC, <<"b">>, <<"t">>, <<"w", ".", "J", "X", "L">> >>,
                                                                  kind |-> "file"],
    [path |-> <<VolD, <<"o">> >>,                                 kind |-> "dir"],
    [path |-> <<Root, <<"a">> >>,                                 kind |-> "dir"],
    [path |-> <<Root, <<"a">>, <<"b">> >>,                        kind |-> "dir"],
    [path |-> <<Root, <<"a">>, <<"b">>, <<"x", ".", "p", "n", "g">> >>,
                                                                  kind |-> "file"],
    [path |-> <<Root, <<"a">>, <<"b">>, <<"v", ".", "j", "p", "g">> >>,
                                                                  kind |-> "file"],
    [path |-> <<Root, <<"a">>, <<"c">> >>,                        kind |-> "dir"],
    [path |-> <<Root, <<"a">>, <<"c">>, <<"y", ".", "p", "n", "g">> >>,
                                                                  kind |-> "file"],
    [path |-> <<Root, <<"a">>, <<"c">>, <<"u", ".", "J", "p", "g">> >>,
                                                                  kind |-> "file"],
    [path |-> <<Root, <<"a">>, <<"c">>, <<"z", ".", "j", "x", "l">> >>,
                                                                  kind |-> "file"],
    [path |-> <<Root, <<"o", "u", "t">> >>,                       kind |-> "dir"],
    \* A folder of three files.
    [path |-> <<VolC, <<"p">> >>,                                 kind |-> "dir"],
    [path |-> <<VolC, <<"p">>, <<"i", "m", ".", "p", "n", "g">> >>,
                                                                  kind |-> "file"],
    [path |-> <<VolC, <<"p">>, <<"n", "o", "t", "e", ".", "t", "x", "t">> >>,
                                                                  kind |-> "file"],
    [path |-> <<VolC, <<"p">>, <<"s", "h", "o", "t", ".", "J", "P", "E", "G">> >>,
                                                                  kind |-> "file"],
    \* A folder of files of every supported extension, and of some others.
    [path |-> <<VolC, <<"q">> >>,                                 kind |-> "dir"],
    [path |-> <<VolC, <<"q">>, <<"a", ".", "j", "p", "g">> >>,    kind |-> "file"],
    [path |-> <<VolC, <<"q">>, <<"b", ".", "J", "p", "e", "g">> >>,
                                                                  kind |-> "file"],
    [path |-> <<VolC, <<"q">>, <<"c", ".", "G", "I", "F">> >>,    kind |-> "file"],
    [path |-> <<VolC, <<"q">>, <<"d", ".", "b", "m", "p">> >>,    kind |-> "file"],
    [path |-> <<VolC, <<"q">>, <<"k", ".", "j", "x", "l">> >>,    kind |-> "file"],
    [path |-> <<VolC, <<"q">>, <<"e", ".", "t", "i", "f", "f">> >>,
                                                                  kind |-> "file"],
    [path |-> <<VolC, <<"q">>, <<"f", ".", "T", "i", "F">> >>,    kind |-> "file"],
    [path |-> <<VolC, <<"q">>, <<"p", "n", "g">> >>,              kind |-> "file"],
    [path |-> <<VolC, <<"q">>, <<".", "p", "n", "g">> >>,         kind |-> "file"],
    [path |-> <<VolC, <<"q">>, <<"g", ".", "w", "e", "b", "p">> >>,
                                                                  kind |-> "file"],
    [path |-> <<VolC, <<"q">>, <<"h", ".", "p", "p", "m">> >>,    kind |-> "file"],
    [path |-> <<VolC, <<"q">>, <<"m", ".", "p", "n">> >>,         kind |-> "file"],
    [path |-> <<VolC, <<"q">>, <<"n", ".", "p", "n", "g", "x">> >>,
                                                                  kind |-> "file"],
    [path |-> <<VolC, <<"q">>, <<"i", ".", "P", "G", "M">> >>,    kind |-> "file"],
    [path |-> <<VolC, <<"q">>, <<"o", ".", "p", "n", "g", ".", "t", "x", "t">> >>,
                                                                  kind |-> "file"],
    [path |-> <<VolC, <<"q">>, <<"r", ".", "t", "x", "t", ".", "p", "n", "g">> >>,
                                                                  kind |-> "file"],
    [path |-> <<VolC, <<"q">>, <<"j", ".", "p", "n", "m">> >>,    kind |-> "file"],
    [path |-> <<VolC, <<"q">>, <<"q", ".">> >>,                   kind |-> "file"],
    \* A folder with subfolders, symbolic links (to a folder, to a file, to
    \* nothing, to the folder itself) and a folder that cannot be read.
    [path |-> <<VolC, <<"k">> >>,                                 kind |-> "dir"],
    [path |-> <<VolC, <<"k">>, <<"u">> >>,                        kind |-> "dir"],
    [path |-> <<VolC, <<"k">>, <<"u">>, <<"i", ".", "p", "n", "g">> >>,
                                                                  kind |-> "file"],
    [path |-> <<VolC, <<"k">>, <<"b", ".", "p", "n", "g">> >>,    kind |-> "symlink"],
    [path |-> <<VolC, <<"k">>, <<"f", ".", "p", "n", "g">> >>,    kind |-> "file"],
    [path |-> <<VolC, <<"k">>, <<"d">> >>,                        kind |-> "dir"],
    [path |-> <<VolC, <<"k">>, <<"d">>, <<"g", ".", "p", "n", "g">> >>,
                                                                  kind |-> "file"],
    [path |-> <<VolC, <<"k">>, <<"d">>, <<"e">> >>,               kind |-> "dir"],
    [path |-> <<VolC, <<"k">>, <<"d">>, <<"e">>, <<"h", ".", "p", "n", "g">> >>,
                                                                  kind |-> "file"],
    [path |-> <<VolC, <<"k">>, <<"l">> >>,                        kind |-> "symlink"],
    [path |-> <<VolC, <<"k">>, <<"m", ".", "p", "n", "g">> >>,    kind |-> "symlink"],
    [path |-> <<VolC, <<"k">>, <<"c">> >>,                        kind |-> "symlink"] >>

FsNodes == {FsListing[i] : i \in 1..Len(FsListing)}

\* Where each symbolic link of the disk points.
FsLinks == {
    [path |-> <<VolC, <<"k">>, <<"l">> >>,
     target |-> <<VolC, <<"k">>, <<"d">> >>],
    [path |-> <<VolC, <<"k">>, <<"m", ".", "p", "n", "g">> >>,
     target |-> <<VolC, <<"k">>, <<"f", ".", "p", "n", "g">> >>],
    [path |-> <<VolC, <<"k">>, <<"b", ".", "p", "n", "g">> >>,
     target |-> <<VolC, <<"k">>, <<"g", "o", "n", "e">> >>],
    [path |-> <<VolC, <<"k">>, <<"c">> >>,
     target |-> <<VolC, <<"k">> >>] }

\* The directories whose content the process is not allowed to list.
FsUnreadable == { <<VolC, <<"k">>, <<"u">> >> }

\* std::fs::metadata: the path a chain of symbolic links starting at p
\* ends at, or None when the chain ends at nothing or is too long.  No path
\* of the model goes through a link in one of its directory components.
RECURSIVE follow(_, _)
follow(p, hops) ==
    IF \E l \in FsLinks : l.path = p
    THEN IF hops = 0 THEN None
         ELSE follow((CHOOSE l \in FsLinks : l.path = p).target, hops - 1)
    ELSE IF p \in {<<VolC>>, <<VolD>>, <<Root>>} \/ \E n \in FsNodes : n.path = p
         THEN Some(p)
         ELSE None

metadata(p) == follow(p, Cardinality(FsLinks))

\* Path::is_file and Path::is_dir, which follow symbolic links.
is_file(p) ==
    /\ metadata(p) # None
    /\ \E n \in FsNodes : n.path = Unwrap(metadata(p)) /\ n.kind = "file"

is_dir(p) ==
    /\ metadata(p) # None
    /\ \/ Unwrap(metadata(p)) \in {<<VolC>>, <<VolD>>, <<Root>>}
       \/ \E n \in FsNodes : n.path = Unwrap(metadata(p)) /\ n.kind = "dir"

\* The paths of the entries that are Ok and whose file type is a plain
\* file, in order (the file type of an entry does not follow a link).
RECURSIVE EntryFiles(_)
EntryFiles(entries) ==
    IF entries = <<>> THEN <<>>
    ELSE (IF Head(entries).kind = "file" THEN <<Head(entries).path>> ELSE <<>>)
         \o EntryFiles(Tail(entries))

\* n is below dir, and every directory from dir down to the one holding n
\* can be listed.
IsUnder(n, dir) ==
    /\ starts_with(n.path, dir)
    /\ \A k \in Len(dir)..(Len(n.path) - 1) :
          SubSeq(n.path, 1, k) \notin FsUnreadable

IsChildOf(n, dir) == parent(n.path) = Some(dir) /\ dir \notin FsUnreadable

\* The entry an iterator over the directory root yields for a node found
\* below the directory dir that root names: its path starts with root.
Entry(n, root, dir) ==
    [path |-> join(root, SubSeq(n.path, Len(dir) + 1, Len(n.path))),
     kind |-> n.kind]

\* The items of a walk for the nodes it finds: an entry for each, and an
\* Err after a directory that cannot be listed.
RECURSIVE Entries(_, _, _)
Entries(nodes, root, dir) ==
    IF nodes = <<>> THEN <<>>
    ELSE LET n == Head(nodes)
         IN <<Entry(n, root, dir)>>
            \o (IF n.kind = "dir" /\ n.path \in FsUnreadable
                THEN <<[path |-> n.path, kind |-> "error"]>>
                ELSE <<>>)
            \o Entries(Tail(nodes), root, dir)

\* WalkDir::new(root).follow_links(false): root (a link there is followed)
\* and every entry at any depth below it; a link below root is an entry
\* and is not descended into.
WalkDir(root) ==
    LET dir == Unwrap(metadata(root))
    IN Entries(SelectSeq(FsListing, LAMBDA n : IsUnder(n, dir)), root, dir)

\* std::fs::read_dir(root): the immediate children, or nothing when the
\* directory cannot be listed (an Err).
read_dir(root) ==
    LET dir == Unwrap(metadata(root))
        children == SelectSeq(FsListing, LAMBDA n : IsChildOf(n, dir))
    IN [i \in 1..Len(children) |-> Entry(children[i], root, dir)]

\* expand_paths that descends into the subfolders whatever the flag is.
RECURSIVE expand_paths_AlwaysRecursive(_, _)
expand_paths_AlwaysRecursive(paths, recursive) ==
    IF paths = <<>> THEN <<>>
    ELSE LET path == Head(paths)
             here == IF is_file(path) THEN <<path>>
                     ELSE IF is_dir(path) THEN EntryFiles(WalkDir(path))
                          ELSE <<>>
         IN here \o expand_paths_AlwaysRecursive(Tail(paths), recursive)

\* ConversionEngine::expand_paths.
RECURSIVE expand_paths(_, _)
expand_paths(paths, recursive) ==
    IF paths = <<>> THEN <<>>
    ELSE LET path == Head(paths)
             here == IF is_file(path) THEN <<path>>
                     ELSE IF is_dir(path)
                          THEN IF recursive
                               THEN EntryFiles(WalkDir(path))
                               ELSE EntryFiles(read_dir(path))
                          ELSE <<>>
         IN here \o expand_paths(Tail(paths), recursive)

SupportedExtensions == {
    <<"j", "p", "g">>, <<"j", "p", "e", "g">>, <<"p", "n", "g">>,
    <<"g", "i", "f">>, <<"b", "m", "p">>, <<"t", "i", "f", "f">>,
    <<"t", "i", "f">>, <<"w", "e", "b", "p">>, <<"p", "p", "m">>,
    <<"p", "g", "m">>, <<"p", "n", "m">> }

\* is_supported_image that compares the extension as it is spelled.
is_supported_image_CaseSensitive(path) ==
    LET ext == extension(file_name(path))
    IN IF ext # None
       THEN Unwrap(ext) \in SupportedExtensions
       ELSE FALSE

\* ConversionEngine::is_supported_image.
is_supported_image(path) ==
    LET ext == extension(file_name(path))
    IN IF ext # None
       THEN to_lowercase(Unwrap(ext)) \in SupportedExtensions
       ELSE FALSE

\* The filter of convert_batch: the supported files, in order.
image_files(files) == SelectSeq(files, is_supported_image)

\* The directory find_common_base compares for a selected path: the parent
\* of a file (an Option), the path itself otherwise.
CandidateDir(path) == IF is_file(path) THEN parent(path) ELSE Some(path)

\* The while loop of find_common_base: walk base upward until check_path
\* starts with it; None when a parent is missing.
RECURSIVE Ascend(_, _)
Ascend(check_path, base) ==
    IF starts_with(check_path, base) THEN Some(base)
    ELSE IF parent(base) = None THEN None
         ELSE Ascend(check_path, Unwrap(parent(base)))

\* The for loop of find_common_base over paths[1..].
RECURSIVE CommonBaseLoop(_, _)
CommonBaseLoop(rest, base) ==
    IF rest = <<>> THEN Some(base)
    ELSE LET check_path == CandidateDir(Head(rest))
         IN IF check_path = None THEN None
            ELSE LET up == Ascend(Unwrap(check_path), base)
                 IN IF up = None THEN None
                    ELSE CommonBaseLoop(Tail(rest), Unwrap(up))

\* A base that is the first path's directory, whatever the other paths are.
find_common_base_FirstOnly(paths) ==
    IF paths = <<>> THEN None ELSE CandidateDir(paths[1])

\* ConversionEngine::find_common_base.
find_common_base(paths) ==
    IF paths = <<>> THEN None
    ELSE LET first == CandidateDir(paths[1])
         IN IF first = None THEN None
            ELSE CommonBaseLoop(Tail(paths), Unwrap(first))

\* A destination that is always flat.
output_path_Flat(input_file, output_dir, keep_structure, base_path, ext) ==
    with_extension(join(output_dir, <<file_name(input_file)>>), ext)

\* The destination of convert_single / decode_single before the parent
\* directories are created: flat or relative to the base, with the target
\* extension.
output_path(input_file, output_dir, keep_structure, base_path, ext) ==
    LET flat == join(output_dir, <<file_name(input_file)>>)
        rel  == IF base_path = None THEN None
                ELSE strip_prefix(input_file, Unwrap(base_path))
        dest == IF keep_structure
                THEN IF base_path # None
                     THEN IF rel # None THEN join(output_dir, Unwrap(rel))
                          ELSE flat
                     ELSE flat
                ELSE flat
    IN with_extension(dest, ext)

Jxl == <<"j", "x", "l">>

OutputFormats == {"Png", "Jpeg", "Ppm", "Pgm", "Pbm"}

\* OutputFormat::extension.
format_extension(f) ==
    CASE f = "Png"  -> <<"p", "n", "g">>
      [] f = "Jpeg" -> <<"j", "p", "g">>
      [] f = "Ppm"  -> <<"p", "p", "m">>
      [] f = "Pgm"  -> <<"p", "g", "m">>
      [] f = "Pbm"  -> <<"p", "b", "m">>

\* is_jpeg of convert_single: the lowercased extension is jpg or jpeg.
is_jpeg(input_file) ==
    LET ext == extension(file_name(input_file))
        ext_lower == IF ext = None THEN <<>> ELSE to_lowercase(Unwrap(ext))
    IN ext_lower = <<"j", "p", "g">> \/ ext_lower = <<"j", "p", "e", "g">>

\* quality_args in which the per-format flag decides before the job-level
\* lossless flag.
quality_args_PerFormatFirst(settings, jpeg) ==
    IF jpeg
    THEN IF settings.jpeg_lossless THEN <<"--lossless_jpeg=1">>
         ELSE IF settings.lossless THEN <<"-d", "0">>
              ELSE <<"-q", ToString(settings.quality)>>
    ELSE IF settings.lossless THEN <<"-d", "0">>
         ELSE <<"-q", ToString(settings.quality)>>

\* The quality/lossless arguments of convert_single.
quality_args(settings, jpeg) ==
    IF settings.lossless
    THEN IF jpeg THEN <<"--lossless_jpeg=1">> ELSE <<"-d", "0">>
    ELSE IF jpeg /\ settings.jpeg_lossless
         THEN <<"--lossless_jpeg=1">>
         ELSE <<"-q", ToString(settings.quality)>>

\* generate_command_preview that shows the quality for every lossy job.
generate_command_preview_QualityUnlessLossless(settings, jpeg) ==
    <<"cjxl">>
    \o (IF settings.lossless
        THEN IF jpeg THEN <<"--lossless_jpeg=1">> ELSE <<"-d", "0">>
        ELSE <<"-q", ToString(settings.quality)>>)
    \o <<"-e", ToString(settings.effort)>>
    \o (IF jpeg THEN <<"input.jpg", "output.jxl">>
        ELSE <<"input.png", "output.jxl">>)

\* JxlConverterApp::generate_command_preview: cmd_parts, which the
\* function joins with single spaces (no part holds a space).
generate_command_preview(settings, jpeg) ==
    <<"cjxl">>
    \o (IF settings.lossless
        THEN IF jpeg THEN <<"--lossless_jpeg=1">> ELSE <<"-d", "0">>
        ELSE IF jpeg /\ settings.jpeg_lossless
             THEN <<"--lossless_jpeg=1">>
             ELSE <<"-q", ToString(settings.quality)>>)
    \o <<"-e", ToString(settings.effort)>>
    \o (IF jpeg THEN <<"input.jpg", "output.jxl">>
        ELSE <<"input.png", "output.jxl">>)

\* One argument of a Command: a path, or a text.
PathArg(p) == [kind |-> "path", path |-> p, text |-> ""]

TextArg(t) == [kind |-> "text", path |-> <<>>, text |-> t]

TextArgs(texts) == [i \in 1..Len(texts) |-> TextArg(texts[i])]

\* encode_args that leaves the effort out in lossless mode.
encode_args_NoEffortWhenLossless(abs_input, abs_output, input_file, settings) ==
    <<PathArg(abs_input), PathArg(abs_output)>>
    \o TextArgs(quality_args(settings, is_jpeg(input_file)))
    \o (IF settings.lossless THEN <<>>
        ELSE TextArgs(<<"-e", ToString(settings.effort)>>))

\* The arguments convert_single passes to cjxl, in the order of its
\* cmd.arg calls.
encode_args(abs_input, abs_output, input_file, settings) ==
    <<PathArg(abs_input), PathArg(abs_output)>>
    \o TextArgs(quality_args(settings, is_jpeg(input_file)))
    \o TextArgs(<<"-e", ToString(settings.effort)>>)

\* The arguments decode_single passes to djxl.
decode_args(abs_input, abs_output) ==
    <<PathArg(abs_input), PathArg(abs_output)>>

\* ---------------------------------------------------------------- types

\* ConversionSettings::default() with the output directory and the two
\* traversal options as given.
ConversionSettings(output_dir, recursive, keep_structure) ==
    [output_dir     |-> output_dir,
     lossless       |-> FALSE,
     jpeg_lossless  |-> TRUE,
     quality        |-> 90,
     effort         |-> 7,
     recursive      |-> recursive,
     keep_structure |-> keep_structure]

\* DecodeSettings::default() with the output directory and keep_structure
\* as given.
DecodeSettings(output_dir, keep_structure) ==
    [output_dir     |-> output_dir,
     output_format  |-> "Png",
     recursive      |-> TRUE,
     keep_structure |-> keep_structure]

DecodeItem(path, output_format) ==
    [path |-> path, output_format |-> output_format]

\* ProgressMessage.
Started(total) == [type |-> "Started", total |-> total]

Progress(current, total, file) ==
    [type |-> "Progress", current |-> current, total |-> total, file |-> file]

Success(file, output) == [type |-> "Success", file |-> file, output |-> output]

Error(file, error) == [type |-> "Error", file |-> file, error |-> error]

Completed == [type |-> "Completed"]

Cancelled == [type |-> "Cancelled"]

\* ------------------------------------------------------------ the caller

\* The fields JxlConverterApp::new() sets, for an engine that located the
\* tools as given.
NewApp(cjxl, djxl) ==
    [engine           |-> [cjxl_path |-> cjxl, djxl_path |-> djxl],
     settings         |-> ConversionSettings(<<>>, TRUE, FALSE),
     input_paths      |-> <<>>,
     decode_settings  |-> DecodeSettings(<<>>, FALSE),
     decode_items     |-> <<>>,
     is_converting    |-> FALSE,
     progress_rx      |-> FALSE,
     current_progress |-> 0,
     total_files      |-> 0,
     current_file     |-> <<>>,
     active_tab       |-> "Encode"]

\* One arm of the match in process_progress_messages.
ApplyMessage(a, msg) ==
    CASE msg.type = "Started" ->
           [a EXCEPT !.total_files = msg.total]
      [] msg.type = "Progress" ->
           [a EXCEPT !.current_progress = msg.current,
                     !.total_files = msg.total,
                     !.current_file = msg.file]
      [] msg.type \in {"Success", "Error", "Skipped"} -> a
      [] msg.type \in {"Completed", "Cancelled"} ->
           [a EXCEPT !.is_converting = FALSE,
                     !.progress_rx = FALSE,
                     !.current_file = <<>>]

RECURSIVE ApplyMessages(_, _)
ApplyMessages(a, messages) ==
    IF messages = <<>> THEN a
    ELSE ApplyMessages(ApplyMessage(a, Head(messages)), Tail(messages))

\* A poll that receives one message and discards the others.
Collected_OnlyFirst(a, ch) ==
    IF a.progress_rx /\ ch # <<>> THEN <<Head(ch)>> ELSE <<>>

\* The messages try_recv yields in one call of process_progress_messages:
\* everything in the channel when there is a receiver, nothing otherwise.
Collected(a, ch) == IF a.progress_rx THEN ch ELSE <<>>

\* JxlConverterApp::process_progress_messages: the caller's fields after
\* all collected messages were applied in order.
process_progress_messages(a, ch) == ApplyMessages(a, Collected(a, ch))

\* The channel after process_progress_messages.
Drained(a, ch) == IF a.progress_rx THEN <<>> ELSE ch

\* A start button that stays enabled while a job is running.
can_start_encode_WhileConverting(a) ==
    /\ a.engine.cjxl_path
    /\ a.input_paths # <<>>
    /\ a.settings.output_dir # <<>>

\* can_start of render_controls_section, per tab.
can_start_encode(a) ==
    /\ ~a.is_converting
    /\ a.engine.cjxl_path
    /\ a.input_paths # <<>>
    /\ a.settings.output_dir # <<>>

can_start_decode(a) ==
    /\ ~a.is_converting
    /\ a.engine.djxl_path
    /\ a.decode_items # <<>>
    /\ a.decode_settings.output_dir # <<>>

\* The early returns of start_conversion / start_decode.
conversion_refused(a) ==
    \/ ~a.engine.cjxl_path
    \/ a.input_paths = <<>>
    \/ a.settings.output_dir = <<>>

decode_refused(a) ==
    \/ ~a.engine.djxl_path
    \/ a.decode_items = <<>>
    \/ a.decode_settings.output_dir = <<>>

\* A start that leaves the counters of the job before.
Starting_KeepsCounters(a) ==
    [a EXCEPT !.is_converting = TRUE,
              !.current_file = <<>>,
              !.progress_rx = TRUE]

\* The caller's fields as start_conversion / start_decode set them.
Starting(a) ==
    [a EXCEPT !.is_converting = TRUE,
              !.current_progress = 0,
              !.total_files = 0,
              !.current_file = <<>>,
              !.progress_rx = TRUE]

\* A start that leaves the flag as the previous job left it.
FlagAtStart_Stale == cancel_flag

\* The value start_conversion / start_decode store into the flag.
FlagAtStart == FALSE

\* ------------------------------------------------------------ the worker

NoWorker ==
    [pc |-> "none", kind |-> "none", tool |-> FALSE,
     input_paths |-> <<>>, decode_items |-> <<>>, settings |-> <<>>,
     files |-> <<>>, total |-> 0, base_path |-> None, idx |-> 0,
     cmd |-> None, result |-> None]

\* The thread start_conversion spawns: a fresh engine and clones of the
\* caller's input list and settings.
EncodeWorker(a, tool) ==
    [NoWorker EXCEPT !.pc = "tool", !.kind = "encode", !.tool = tool,
                     !.input_paths = a.input_paths,
                     !.settings = a.settings]

\* The thread start_decode spawns.
DecodeWorker(a, tool) ==
    [NoWorker EXCEPT !.pc = "tool", !.kind = "decode", !.tool = tool,
                     !.decode_items = a.decode_items,
                     !.settings = a.decode_settings]

\* What is recorded of a job: the messages its worker sent; the items whose
\* process was launched; the items whose conversion returned an Err; the
\* item at whose boundary check the flag was set (0: none); the flag's
\* value when the closing message was sent; whether cancel was clicked
\* since the job started, and the item that was being converted at such a
\* click (0: none); the flag's value right before the job was started and
\* when its worker was spawned; the paths of the job's work list, as the
\* caller's lists and the disk give it when the job is started; whether
\* the worker of the job before had not returned when this one was
\* spawned; the messages the caller has applied, over all its polls; the
\* caller's lists and settings when the job was started; how many edits
\* the user has made since the model started; the log entries the last
\* call of start_conversion / start_decode appended; how many messages the
\* worker had sent and how many boundary checks it had passed when the
\* flag was set.
NoHistory ==
    [emitted |-> <<>>, work |-> <<>>, launched |-> {}, failed |-> {}, boundary |-> 0,
     flag_at_close |-> FALSE, cancel_clicked |-> FALSE, cancel_during |-> 0,
     flag_before |-> FALSE, flag_at_spawn |-> FALSE,
     overlap |-> FALSE, applied |-> <<>>, args |-> None, edits |-> 0,
     start_log |-> <<>>, cancel_set |-> None]

\* Sender::send: the message is queued unless the receiver was dropped
\* (the worker ignores the result).
Sent(ch, msg) == IF app.progress_rx THEN Append(ch, msg) ELSE ch

\* What the history keeps of a message: everything but the error text and
\* the output path.
Observed(msg) ==
    IF msg.type \in {"Success", "Error"}
    THEN [type |-> msg.type, file |-> msg.file]
    ELSE msg

\* The history with one more message the worker sent.
Emitted(h, msg) ==
    [h EXCEPT !.emitted = Append(@, Observed(msg)),
              !.flag_at_close = IF msg.type \in {"Completed", "Cancelled"}
                                THEN cancel_flag ELSE @]

Send(msg) ==
    /\ chan' = Sent(chan, msg)
    /\ hist' = Emitted(hist, msg)

ObservedAll(messages) == [i \in 1..Len(messages) |-> Observed(messages[i])]

\* The history after a call of process_progress_messages.
Polled(h) == [h EXCEPT !.applied = @ \o ObservedAll(Collected(app, chan))]

\* The error texts of the engine: a fixed text and what follows it (the
\* io error or the captured standard error).
NotFound(kind) ==
    [text |-> IF kind = "encode" THEN "cjxl not found" ELSE "djxl not found",
     detail |-> ""]

ResolveErrors == {"Failed to create output directory: ",
                  "Failed to resolve input path: ",
                  "Failed to resolve output path: ",
                  "Failed to resolve output directory: "}

ExecuteError(kind) ==
    [text |-> IF kind = "encode" THEN "Failed to execute cjxl: "
              ELSE "Failed to execute djxl: ",
     detail |-> "io"]

ToolFailed(kind, stderr) ==
    [text |-> IF kind = "encode" THEN "cjxl failed: " ELSE "djxl failed: ",
     detail |-> stderr]

\* What a terminated process leaves: its exit status and standard error.
StderrTexts == {"", "err"}

\* The work list of a worker: the filtered expansion (convert_batch) or
\* the decode items as given (decode_batch).
WorkList(wk) ==
    IF wk.kind = "encode"
    THEN image_files(expand_paths(wk.input_paths, wk.settings.recursive))
    ELSE wk.decode_items

\* The paths find_common_base is given.
SelectedPaths(wk) ==
    IF wk.kind = "encode" THEN wk.input_paths
    ELSE [i \in 1..Len(wk.decode_items) |-> wk.decode_items[i].path]

\* The input file of the item the loop is at.
CurrentFile(wk) ==
    IF wk.kind = "encode" THEN wk.files[wk.idx + 1]
    ELSE wk.files[wk.idx + 1].path

\* A decode that takes the extension of the job's default format.
TargetExtension_JobDefault(wk) ==
    IF wk.kind = "encode" THEN Jxl
    ELSE format_extension(wk.settings.output_format)

\* The extension the destination of the current item gets.
TargetExtension(wk) ==
    IF wk.kind = "encode" THEN Jxl
    ELSE format_extension(wk.files[wk.idx + 1].output_format)

\* fs::canonicalize of an existing path that goes through no symbolic
\* link and has no "." or "..": the jobs whose items are converted have
\* only such paths.
canonicalize(p) == p

\* A resolution that picks a new name when the destination exists.
abs_output_NoOverwrite(output_path_, exists) ==
    IF exists
    THEN join(Unwrap(parent(output_path_)), <<<<"_">> \o file_name(output_path_)>>)
    ELSE join(canonicalize(Unwrap(parent(output_path_))), <<file_name(output_path_)>>)

\* abs_output of convert_single / decode_single: the destination itself
\* when it exists, its resolved parent joined with its file name otherwise.
abs_output(output_path_, exists) ==
    IF exists
    THEN canonicalize(output_path_)
    ELSE IF parent(output_path_) # None
         THEN join(canonicalize(Unwrap(parent(output_path_))),
                   <<file_name(output_path_)>>)
         ELSE output_path_

\* A worker that reads the caller's settings instead of its own copy.
Command_FromCaller(wk, exists) ==
    LET input_file == CurrentFile(wk)
        settings == IF wk.kind = "encode" THEN app.settings
                    ELSE app.decode_settings
        out == output_path(input_file, settings.output_dir,
                           settings.keep_structure, wk.base_path,
                           TargetExtension(wk))
    IN [output |-> abs_output(out, exists),
        args |-> IF wk.kind = "encode"
                 THEN encode_args(canonicalize(input_file), abs_output(out, exists),
                                  input_file, settings)
                 ELSE decode_args(canonicalize(input_file), abs_output(out, exists))]

\* The command convert_single / decode_single builds for the current item
\* when its destination exists already, or does not: its arguments, and
\* abs_output, which the function returns on success.
Command(wk, exists) ==
    LET input_file == CurrentFile(wk)
        out == output_path(input_file, wk.settings.output_dir,
                           wk.settings.keep_structure, wk.base_path,
                           TargetExtension(wk))
    IN [output |-> abs_output(out, exists),
        args |-> IF wk.kind = "encode"
                 THEN encode_args(canonicalize(input_file), abs_output(out, exists),
                                  input_file, wk.settings)
                 ELSE decode_args(canonicalize(input_file), abs_output(out, exists))]

\* BatchBegin without the return after the "not found" error.
BatchBegin_NoReturn ==
    /\ w.pc = "tool"
    /\ IF ~w.tool
       THEN /\ Send(Error(<<>>, NotFound(w.kind)))
            /\ w' = [w EXCEPT !.pc = "empty"]
       ELSE /\ Send(Started(Len(WorkList(w))))
            /\ w' = [w EXCEPT !.pc = "empty", !.files = WorkList(w),
                              !.total = Len(WorkList(w))]
    /\ UNCHANGED <<app, cancel_flag>>

\* convert_batch / decode_batch up to the Started message: the tool check,
\* the expansion and the filter.
BatchBegin ==
    /\ w.pc = "tool"
    /\ IF ~w.tool
       THEN /\ Send(Error(<<>>, NotFound(w.kind)))
            /\ w' = [w EXCEPT !.pc = "done"]
       ELSE /\ Send(Started(Len(WorkList(w))))
            /\ w' = [w EXCEPT !.pc = "empty", !.files = WorkList(w),
                              !.total = Len(WorkList(w))]
    /\ UNCHANGED <<app, cancel_flag>>

\* BatchEmptyCheck without the return after Completed.
BatchEmptyCheck_NoReturn ==
    /\ w.pc = "empty"
    /\ IF w.total = 0
       THEN /\ Send(Completed)
            /\ w' = [w EXCEPT !.pc = "loop"]
       ELSE /\ w' = [w EXCEPT !.pc = "loop",
                              !.base_path = IF w.settings.keep_structure
                                            THEN find_common_base(SelectedPaths(w))
                                            ELSE None]
            /\ UNCHANGED <<chan, hist>>
    /\ UNCHANGED <<app, cancel_flag>>

\* A batch that gives up when keep-structure is on and there is no base.
BatchEmptyCheck_BaseRequired ==
    /\ w.pc = "empty"
    /\ IF w.total = 0
       THEN /\ Send(Completed)
            /\ w' = [w EXCEPT !.pc = "done"]
       ELSE IF w.settings.keep_structure
               /\ find_common_base(SelectedPaths(w)) = None
            THEN /\ Send(Error(<<>>, [text |-> "no common base", detail |-> ""]))
                 /\ w' = [w EXCEPT !.pc = "done"]
            ELSE /\ w' = [w EXCEPT !.pc = "loop",
                                   !.base_path = IF w.settings.keep_structure
                                                 THEN find_common_base(SelectedPaths(w))
                                                 ELSE None]
                 /\ UNCHANGED <<chan, hist>>
    /\ UNCHANGED <<app, cancel_flag>>

\* if total == 0 { send Completed; return }, else the common base.
BatchEmptyCheck ==
    /\ w.pc = "empty"
    /\ IF w.total = 0
       THEN /\ Send(Completed)
            /\ w' = [w EXCEPT !.pc = "done"]
       ELSE /\ w' = [w EXCEPT !.pc = "loop",
                              !.base_path = IF w.settings.keep_structure
                                            THEN find_common_base(SelectedPaths(w))
                                            ELSE None]
            /\ UNCHANGED <<chan, hist>>
    /\ UNCHANGED <<app, cancel_flag>>

\* A loop that never looks at the flag.
StopsAtBoundary_Never(flag) == FALSE

\* What the loop does with the flag it loaded at the head of an iteration.
StopsAtBoundary(flag) == flag

\* The history after a boundary check: the item before which the flag was
\* set, if it was.
AtBoundary(h) == IF cancel_flag THEN [h EXCEPT !.boundary = w.idx + 1] ELSE h

\* BatchBoundary without the return after Cancelled.
BatchBoundary_NoReturn ==
    /\ w.pc = "loop"
    /\ w.idx < w.total
    /\ IF StopsAtBoundary(cancel_flag)
       THEN /\ chan' = Sent(chan, Cancelled)
            /\ hist' = AtBoundary(Emitted(hist, Cancelled))
       ELSE /\ hist' = AtBoundary(hist)
            /\ UNCHANGED chan
    /\ w' = [w EXCEPT !.pc = "progress"]
    /\ UNCHANGED <<app, cancel_flag>>

\* A loop that looks at the flag before its first item only.
BatchBoundary_FirstOnly ==
    /\ w.pc = "loop"
    /\ w.idx < w.total
    /\ IF w.idx = 0 /\ StopsAtBoundary(cancel_flag)
       THEN /\ chan' = Sent(chan, Cancelled)
            /\ hist' = AtBoundary(Emitted(hist, Cancelled))
            /\ w' = [w EXCEPT !.pc = "done"]
       ELSE /\ w' = [w EXCEPT !.pc = "progress"]
            /\ hist' = AtBoundary(hist)
            /\ UNCHANGED chan
    /\ UNCHANGED <<app, cancel_flag>>

\* The head of the for loop: the next item and the cancellation check.
BatchBoundary ==
    /\ w.pc = "loop"
    /\ w.idx < w.total
    /\ IF StopsAtBoundary(cancel_flag)
       THEN /\ chan' = Sent(chan, Cancelled)
            /\ hist' = AtBoundary(Emitted(hist, Cancelled))
            /\ w' = [w EXCEPT !.pc = "done"]
       ELSE /\ w' = [w EXCEPT !.pc = "progress"]
            /\ hist' = AtBoundary(hist)
            /\ UNCHANGED chan
    /\ UNCHANGED <<app, cancel_flag>>

\* BatchProgress that reports the zero-based index.
BatchProgress_ZeroBased ==
    /\ w.pc = "progress"
    /\ Send(Progress(w.idx, w.total, CurrentFile(w)))
    /\ w' = [w EXCEPT !.pc = "single"]
    /\ UNCHANGED <<app, cancel_flag>>

\* BatchProgress that reports how many items are left as the total.
BatchProgress_Remaining ==
    /\ w.pc = "progress"
    /\ Send(Progress(w.idx + 1, w.total - w.idx, CurrentFile(w)))
    /\ w' = [w EXCEPT !.pc = "single"]
    /\ UNCHANGED <<app, cancel_flag>>

\* send Progress { current: idx + 1, total, file }.
BatchProgress ==
    /\ w.pc = "progress"
    /\ Send(Progress(w.idx + 1, w.total, CurrentFile(w)))
    /\ w' = [w EXCEPT !.pc = "single"]
    /\ UNCHANGED <<app, cancel_flag>>

\* convert_single / decode_single up to and including the launch of the
\* tool: a directory creation or a path resolution fails, the process
\* cannot be spawned, or the process runs.  Whether the destination exists
\* is for the disk to say: earlier conversions and other programs write
\* to it.
SingleLaunch ==
    /\ w.pc = "single"
    /\ \/ \E text \in ResolveErrors :
            /\ w' = [w EXCEPT !.pc = "report",
                              !.result = [ok |-> FALSE,
                                          error |-> [text |-> text, detail |-> "io"]]]
            /\ hist' = [hist EXCEPT !.failed = @ \cup {w.idx + 1}]
       \/ \E exists \in BOOLEAN :
            /\ w' = [w EXCEPT !.pc = "report", !.cmd = Some(Command(w, exists)),
                              !.result = [ok |-> FALSE, error |-> ExecuteError(w.kind)]]
            /\ hist' = [hist EXCEPT !.failed = @ \cup {w.idx + 1}]
       \/ \E exists \in BOOLEAN :
            /\ w' = [w EXCEPT !.pc = "running", !.cmd = Some(Command(w, exists))]
            /\ hist' = [hist EXCEPT !.launched = @ \cup {w.idx + 1}]
    /\ UNCHANGED <<app, cancel_flag, chan>>

\* A result that takes a process that wrote nothing to its standard error
\* for a success.
SingleResult_QuietIsSuccess(wk, success, stderr) ==
    IF success \/ stderr = ""
    THEN [ok |-> TRUE, output |-> Unwrap(wk.cmd).output]
    ELSE [ok |-> FALSE, error |-> ToolFailed(wk.kind, stderr)]

\* The result of convert_single / decode_single for a process that ended
\* with the given status and standard error.
SingleResult(wk, success, stderr) ==
    IF success
    THEN [ok |-> TRUE, output |-> Unwrap(wk.cmd).output]
    ELSE [ok |-> FALSE, error |-> ToolFailed(wk.kind, stderr)]

\* A worker that looks at the flag while the process runs, and gives up.
SingleExit_KilledOnCancel ==
    /\ w.pc = "running"
    /\ IF cancel_flag
       THEN /\ Send(Cancelled)
            /\ w' = [w EXCEPT !.pc = "done"]
       ELSE /\ \E success \in BOOLEAN, stderr \in StderrTexts :
                  /\ w' = [w EXCEPT !.pc = "report",
                                    !.result = SingleResult(w, success, stderr)]
                  /\ hist' = IF success THEN hist
                             ELSE [hist EXCEPT !.failed = @ \cup {w.idx + 1}]
            /\ UNCHANGED chan
    /\ UNCHANGED <<app, cancel_flag>>

\* The external process ends (Command::output returns).
SingleExit ==
    /\ w.pc = "running"
    /\ \E success \in BOOLEAN, stderr \in StderrTexts :
          /\ w' = [w EXCEPT !.pc = "report",
                            !.result = SingleResult(w, success, stderr)]
          /\ hist' = IF success THEN hist
                     ELSE [hist EXCEPT !.failed = @ \cup {w.idx + 1}]
    /\ UNCHANGED <<app, cancel_flag, chan>>

\* The message the match on the item's result sends.
Outcome(wk) ==
    IF wk.result.ok
    THEN Success(CurrentFile(wk), wk.result.output)
    ELSE Error(CurrentFile(wk), wk.result.error)

\* A loop that returns when an item failed.
NextItem_AbortOnError(wk) ==
    IF wk.result.ok
    THEN [wk EXCEPT !.pc = "loop", !.idx = @ + 1, !.cmd = None, !.result = None]
    ELSE [wk EXCEPT !.pc = "done"]

\* The worker after the match: the loop moves to the next item.
NextItem(wk) == [wk EXCEPT !.pc = "loop", !.idx = @ + 1,
                           !.cmd = None, !.result = None]

\* A match that reports the successes only.
BatchReport_SilentOnError ==
    /\ w.pc = "report"
    /\ IF w.result.ok
       THEN Send(Outcome(w))
       ELSE UNCHANGED <<chan, hist>>
    /\ w' = NextItem(w)
    /\ UNCHANGED <<app, cancel_flag>>

\* The match on the result of convert_single / decode_single.
BatchReport ==
    /\ w.pc = "report"
    /\ Send(Outcome(w))
    /\ w' = NextItem(w)
    /\ UNCHANGED <<app, cancel_flag>>

\* A loop that returns at its end without the final message.
BatchCompleted_NoSend ==
    /\ w.pc = "loop"
    /\ w.idx = w.total
    /\ w' = [w EXCEPT !.pc = "done"]
    /\ UNCHANGED <<app, cancel_flag, chan, hist>>

\* A loop that looks at the flag once more at its end.
BatchCompleted_ChecksFlag ==
    /\ w.pc = "loop"
    /\ w.idx = w.total
    /\ Send(IF cancel_flag THEN Cancelled ELSE Completed)
    /\ w' = [w EXCEPT !.pc = "done"]
    /\ UNCHANGED <<app, cancel_flag>>

\* The loop is exhausted: send Completed.
BatchCompleted ==
    /\ w.pc = "loop"
    /\ w.idx = w.total
    /\ Send(Completed)
    /\ w' = [w EXCEPT !.pc = "done"]
    /\ UNCHANGED <<app, cancel_flag>>

Worker ==
    \/ BatchBegin
    \/ BatchEmptyCheck
    \/ BatchBoundary
    \/ BatchProgress
    \/ SingleLaunch
    \/ SingleExit
    \/ BatchReport
    \/ BatchCompleted

\* ------------------------------------------------------ the caller's frames

\* eframe::App::update with no input: process_progress_messages only.
Update ==
    /\ app' = process_progress_messages(app, chan)
    /\ chan' = Drained(app, chan)
    /\ hist' = Polled(hist)
    /\ UNCHANGED <<cancel_flag, w>>

\* update with a click on the other tab.
SelectTab ==
    \E tab \in {"Encode", "Decode"} :
        LET a == process_progress_messages(app, chan)
        IN /\ tab # a.active_tab
           /\ app' = [a EXCEPT !.active_tab = tab]
           /\ chan' = Drained(app, chan)
           /\ hist' = Polled(hist)
           /\ UNCHANGED <<cancel_flag, w>>

\* LogEntry, with the variant as its level.
LogEntry(level, text) == [level |-> level, text |-> text]

\* The history of a job started now by the given worker.
NewHistory(wk) ==
    [NoHistory EXCEPT !.flag_before = cancel_flag,
                      !.flag_at_spawn = FlagAtStart,
                      !.overlap = w.pc \notin {"none", "done"},
                      !.args = Some([kind |-> wk.kind,
                                     input_paths |-> app.input_paths,
                                     decode_items |-> app.decode_items,
                                     settings |-> IF wk.kind = "encode"
                                                  THEN app.settings
                                                  ELSE app.decode_settings]),
                      !.edits = hist.edits,
                      !.start_log = <<LogEntry("Info",
                                        IF wk.kind = "encode"
                                        THEN "Conversion started..."
                                        ELSE "Decoding started...")>>,
                      !.work = IF wk.kind = "encode" THEN WorkList(wk)
                               ELSE SelectedPaths(wk)]

\* start_conversion that resets the job's fields before its checks.
start_conversion_ResetFirst(a, ch, h) ==
    IF conversion_refused(a)
    THEN /\ app' = [a EXCEPT !.current_progress = 0, !.total_files = 0]
         /\ cancel_flag' = FALSE
         /\ chan' = ch
         /\ hist' = [h EXCEPT !.start_log = <<LogEntry("Warning", "refused")>>]
         /\ UNCHANGED w
    ELSE \E tool \in BOOLEAN :
         /\ app' = Starting(a)
         /\ cancel_flag' = FlagAtStart
         /\ chan' = <<>>
         /\ w' = EncodeWorker(a, tool)
         /\ hist' = NewHistory(EncodeWorker(a, tool))

\* JxlConverterApp::start_conversion, called when the caller's fields are
\* a, the channel holds ch and the history is h: one of the three early
\* returns, or the start of a job.
start_conversion(a, ch, h) ==
    IF conversion_refused(a)
    THEN /\ app' = a
         /\ chan' = ch
         /\ hist' = [h EXCEPT !.start_log =
                        <<IF ~a.engine.cjxl_path
                          THEN LogEntry("Error", "cjxl is not available.")
                          ELSE IF a.input_paths = <<>>
                          THEN LogEntry("Warning", "No input files or folders selected.")
                          ELSE LogEntry("Warning", "No output directory selected.")>>]
         /\ UNCHANGED <<cancel_flag, w>>
    ELSE \E tool \in BOOLEAN :
         /\ app' = Starting(a)
         /\ cancel_flag' = FlagAtStart
         /\ chan' = <<>>
         /\ w' = EncodeWorker(a, tool)
         /\ hist' = NewHistory(EncodeWorker(a, tool))

\* JxlConverterApp::start_decode.
start_decode(a, ch, h) ==
    IF decode_refused(a)
    THEN /\ app' = a
         /\ chan' = ch
         /\ hist' = [h EXCEPT !.start_log =
                        <<IF ~a.engine.djxl_path
                          THEN LogEntry("Error", "djxl is not available.")
                          ELSE IF a.decode_items = <<>>
                          THEN LogEntry("Warning", "No JXL files selected.")
                          ELSE LogEntry("Warning", "No output directory selected.")>>]
         /\ UNCHANGED <<cancel_flag, w>>
    ELSE \E tool \in BOOLEAN :
         /\ app' = Starting(a)
         /\ cancel_flag' = FlagAtStart
         /\ chan' = <<>>
         /\ w' = DecodeWorker(a, tool)
         /\ hist' = NewHistory(DecodeWorker(a, tool))

\* update with a click on "Start Encoding", which is enabled when
\* can_start holds.
ClickStartEncoding ==
    LET a == process_progress_messages(app, chan)
    IN /\ a.active_tab = "Encode"
       /\ can_start_encode(a)
       /\ start_conversion(a, Drained(app, chan), Polled(hist))

\* update with a click on "Start Decoding".
ClickStartDecoding ==
    LET a == process_progress_messages(app, chan)
    IN /\ a.active_tab = "Decode"
       /\ can_start_decode(a)
       /\ start_decode(a, Drained(app, chan), Polled(hist))

\* The history after a click on "Cancel".
Clicked(h) ==
    [Polled(h) EXCEPT
        !.cancel_clicked = TRUE,
        !.cancel_during = IF w.pc \in {"single", "running", "report"}
                          THEN w.idx + 1 ELSE @]

\* The same, with the worker's position recorded if this click is the one
\* that sets the flag.
ClickedAt(h) ==
    [Clicked(h) EXCEPT
        !.cancel_set =
            IF cancel_flag THEN @
            ELSE Some([sent |-> Len(h.emitted),
                       passed |-> IF w.pc \in {"progress", "single",
                                               "running", "report"}
                                  THEN w.idx + 1 ELSE w.idx])]

\* cancel_conversion, called from update after the poll, leaving h as the
\* history.
cancel_conversion(h) ==
    LET a == process_progress_messages(app, chan)
    IN /\ a.is_converting
       /\ app' = a
       /\ chan' = Drained(app, chan)
       /\ cancel_flag' = TRUE
       /\ hist' = h
       /\ UNCHANGED w

\* update with a click on "Cancel".
ClickCancel == cancel_conversion(Clicked(hist))

\* The same click, observed.
ClickCancelAt == cancel_conversion(ClickedAt(hist))

Caller ==
    \/ Update
    \/ SelectTab
    \/ ClickStartEncoding
    \/ ClickStartDecoding
    \/ ClickCancel

\* ------------------------------------------------------- initial states

Dir_a == <<VolC, <<"a">> >>

Dir_a_s == <<VolC, <<"a">>, <<"s">> >>

File_n_txt == <<VolC, <<"a">>, <<"n", ".", "t", "x", "t">> >>

File_z_jxl == <<VolC, <<"b">>, <<"z", ".", "j", "x", "l">> >>

File_w_JXL == <<VolC, <<"b">>, <<"t">>, <<"w", ".", "J", "X", "L">> >>

OutDir == <<VolD, <<"o">> >>

\* What the user may have selected on the encode tab, and on the decode tab.
EncodeRoots == {Dir_a, Dir_a_s, File_n_txt}

DecodeFiles == {File_z_jxl, File_w_JXL}

InitFormats == {"Png", "Jpeg"}

\* The lists of at most MaxSel different elements of S (the add handlers
\* skip a path that is already in the list).
Selections(S) ==
    {q \in UNION {[1..k -> S] : k \in 0..MaxSel} :
        \A i, j \in DOMAIN q : i # j => q[i] # q[j]}

\* The decode lists: different files, each with an output format.
DecodeSelections ==
    {q \in UNION {[1..k -> [path : DecodeFiles, output_format : InitFormats]] :
                     k \in 0..MaxSel} :
        \A i, j \in DOMAIN q : i # j => q[i].path # q[j].path}

\* The user filled the encode tab.
InitEncode ==
    \E cjxl \in BOOLEAN, sel \in Selections(EncodeRoots),
       out \in {<<>>, OutDir}, recursive \in BOOLEAN :
        app = [NewApp(cjxl, TRUE) EXCEPT
                  !.input_paths = sel,
                  !.settings = ConversionSettings(out, recursive, FALSE)]

\* The user filled the decode tab.
InitDecode ==
    \E djxl \in BOOLEAN, sel \in DecodeSelections, out \in {<<>>, OutDir} :
        app = [NewApp(TRUE, djxl) EXCEPT
                  !.decode_items = sel,
                  !.decode_settings = DecodeSettings(out, FALSE)]

\* The user filled both tabs and asked to keep the folder structure.
InitBoth ==
    app = [NewApp(TRUE, TRUE) EXCEPT
              !.input_paths = <<Dir_a_s>>,
              !.settings = ConversionSettings(OutDir, TRUE, TRUE),
              !.decode_items = <<DecodeItem(File_z_jxl, "Png")>>,
              !.decode_settings = DecodeSettings(OutDir, TRUE)]

Init ==
    /\ InitEncode \/ InitDecode \/ InitBoth
    /\ cancel_flag = FALSE
    /\ chan = <<>>
    /\ w = NoWorker
    /\ hist = NoHistory

Next == Caller \/ Worker

Spec == Init /\ [][Next]_vars

\* The program with the worker's position recorded at the click that
\* sets the flag.
CancelNext ==
    \/ Update
    \/ SelectTab
    \/ ClickStartEncoding
    \/ ClickStartDecoding
    \/ ClickCancelAt
    \/ Worker

CancelSpec == Init /\ [][CancelNext]_vars

\* The worker thread is scheduled and every external process returns; the
\* caller's update runs again and again (it requests a repaint while a job
\* is running).
FairSpec == Spec /\ WF_vars(Worker) /\ WF_vars(Update)

\* ------------------------------------------------- the user edits the tabs

\* What the dialogs of the edits return.
OutDir2 == <<VolD, <<"o">>, <<"q">> >>

File_x_png == <<VolC, <<"a">>, <<"x", ".", "p", "n", "g">> >>

EditQualities == {1}

EditEfforts == {9}

EditFormats == {"Jpeg", "Pbm"}

\* Vec::contains for the two lists.
Contains(paths, p) == \E i \in DOMAIN paths : paths[i] = p

ContainsItem(items, p) == \E i \in DOMAIN items : items[i].path = p

\* Vec::remove(idx), zero-based as in the code.
Remove(items, idx) ==
    SubSeq(items, 1, idx) \o SubSeq(items, idx + 2, Len(items))

\* The push of render_input_section: a path not yet in the list is
\* appended.
push_input_path(a, path) ==
    IF Contains(a.input_paths, path) THEN a
    ELSE [a EXCEPT !.input_paths = Append(@, path)]

\* The loop over the dropped files (one without a path is skipped) and
\* over the picked files.
RECURSIVE add_input_paths(_, _)
add_input_paths(a, files) ==
    IF files = <<>> THEN a
    ELSE add_input_paths(IF Head(files) = None THEN a
                         ELSE push_input_path(a, Unwrap(Head(files))),
                         Tail(files))

\* The push of render_decode_input_section and of
\* add_jxl_files_from_folder: a path not yet in the list is appended with
\* the default format of the moment.
push_decode_item(a, path) ==
    IF ContainsItem(a.decode_items, path) THEN a
    ELSE [a EXCEPT !.decode_items =
             Append(@, DecodeItem(path, a.decode_settings.output_format))]

\* The loop over the picked files.
RECURSIVE add_jxl_files(_, _)
add_jxl_files(a, files) ==
    IF files = <<>> THEN a
    ELSE add_jxl_files(push_decode_item(a, Head(files)), Tail(files))

\* add_jxl_files_from_folder without the test of the extension.
add_jxl_files_from_folder_AnyFile(a, folder) ==
    LET walker == IF a.decode_settings.recursive
                  THEN WalkDir(folder)
                  ELSE <<[path |-> folder, kind |-> "dir"]>> \o read_dir(folder)
    IN add_jxl_files(a, EntryFiles(walker))

\* JxlConverterApp::add_jxl_files_from_folder: the walk has the folder
\* itself as its first entry and stops below it unless Recursive is on.
add_jxl_files_from_folder(a, folder) ==
    LET walker == IF a.decode_settings.recursive
                  THEN WalkDir(folder)
                  ELSE <<[path |-> folder, kind |-> "dir"]>> \o read_dir(folder)
        is_jxl(path) ==
            LET ext == extension(file_name(path))
            IN ext # None /\ to_lowercase(Unwrap(ext)) = <<"j", "x", "l">>
    IN add_jxl_files(a, SelectSeq(EntryFiles(walker), is_jxl))

\* The default format selector that leaves the items as they are.
select_default_format_SettingOnly(a, format) ==
    [a EXCEPT !.decode_settings.output_format = format]

\* render_decode_output_section: a click on a value of the default format
\* selector (the value it shows included) sets the format of every item.
select_default_format(a, format) ==
    [a EXCEPT !.decode_settings.output_format = format,
              !.decode_items =
                  [i \in DOMAIN @ |-> [@[i] EXCEPT !.output_format = format]]]

\* render_decode_list_section: the format selector of the item at idx.
select_item_format(a, idx, format) ==
    [a EXCEPT !.decode_items[idx + 1].output_format = format]

\* A frame in which the user changed something while a job is running:
\* the poll, then the edit.
Edited(a) ==
    /\ hist.edits < MaxEdits
    /\ a.is_converting
    /\ app' = a
    /\ chan' = Drained(app, chan)
    /\ hist' = [Polled(hist) EXCEPT !.edits = @ + 1]
    /\ UNCHANGED <<cancel_flag, w>>

\* render_input_section: Add Files (or a dropped path), and Clear.
EditInputPaths ==
    LET a == process_progress_messages(app, chan)
    IN /\ a.active_tab = "Encode"
       /\ \/ \E file \in {File_x_png} :
                Edited(add_input_paths(a, <<Some(file)>>))
          \/ Edited([a EXCEPT !.input_paths = <<>>])

\* render_input_section / render_output_section: the two checkboxes and
\* the Browse button.
EditSettings ==
    LET a == process_progress_messages(app, chan)
    IN /\ a.active_tab = "Encode"
       /\ \/ Edited([a EXCEPT !.settings.recursive = ~@])
          \/ Edited([a EXCEPT !.settings.keep_structure = ~@])
          \/ \E folder \in {OutDir2} :
                Edited([a EXCEPT !.settings.output_dir = folder])

\* render_options_section: the checkboxes and the sliders (the quality
\* slider is disabled in lossless mode).
EditOptions ==
    LET a == process_progress_messages(app, chan)
    IN /\ a.active_tab = "Encode"
       /\ \/ Edited([a EXCEPT !.settings.lossless = ~@])
          \/ Edited([a EXCEPT !.settings.jpeg_lossless = ~@])
          \/ \E q \in EditQualities :
                /\ ~a.settings.lossless
                /\ Edited([a EXCEPT !.settings.quality = q])
          \/ \E e \in EditEfforts :
                Edited([a EXCEPT !.settings.effort = e])

\* render_decode_input_section: Add JXL Files and Clear;
\* render_decode_list_section: the remove button of an item.
EditDecodeItems ==
    LET a == process_progress_messages(app, chan)
    IN /\ a.active_tab = "Decode"
       /\ \/ \E file \in {File_w_JXL} :
                Edited(add_jxl_files(a, <<file>>))
          \/ Edited([a EXCEPT !.decode_items = <<>>])
          \/ \E idx \in 0..(Len(a.decode_items) - 1) :
                Edited([a EXCEPT !.decode_items = Remove(@, idx)])

\* render_decode_list_section: the format selector of one item.
EditItemFormat ==
    LET a == process_progress_messages(app, chan)
    IN /\ a.active_tab = "Decode"
       /\ \E idx \in 0..(Len(a.decode_items) - 1), format \in EditFormats :
             /\ format # a.decode_items[idx + 1].output_format
             /\ Edited(select_item_format(a, idx, format))

\* render_decode_output_section: the checkbox, the Browse button and the
\* default format, which is applied to every item of the list.
EditDecodeSettings ==
    LET a == process_progress_messages(app, chan)
    IN /\ a.active_tab = "Decode"
       /\ \/ Edited([a EXCEPT !.decode_settings.keep_structure = ~@])
          \/ \E folder \in {OutDir2} :
                Edited([a EXCEPT !.decode_settings.output_dir = folder])
          \/ \E format \in EditFormats :
                Edited(select_default_format(a, format))

Edit ==
    \/ EditInputPaths
    \/ EditSettings
    \/ EditOptions
    \/ EditDecodeItems
    \/ EditItemFormat
    \/ EditDecodeSettings

\* Both tabs are filled when the model starts; the user then edits them
\* while a job is running.
InitEdit ==
    /\ app = [NewApp(TRUE, TRUE) EXCEPT
                 !.input_paths = <<Dir_a_s>>,
                 !.settings = ConversionSettings(OutDir, TRUE, FALSE),
                 !.decode_items = <<DecodeItem(File_z_jxl, "Png")>>,
                 !.decode_settings = DecodeSettings(OutDir, FALSE)]
    /\ cancel_flag = FALSE
    /\ chan = <<>>
    /\ w = NoWorker
    /\ hist = NoHistory

NextEdit == Next \/ Edit

EditSpec == InitEdit /\ [][NextEdit]_vars

\* ------------------------------------------------- the two tabs, no job

Dir_b == <<VolC, <<"b">> >>

Dir_q == <<VolC, <<"q">> >>

\* What the file dialog of the decode tab may return.
PickedFiles == {<<File_z_jxl>>, <<File_w_JXL>>, <<File_w_JXL, File_z_jxl>>}

\* The folders the user may scan on the decode tab.
ScannedFolders == {Dir_b, Dir_q}

\* What may be dropped on the window: files and folders, some twice, some
\* without a path.
DroppedFiles == {<<Some(Dir_a), None, Some(Dir_a)>>,
                 <<Some(File_x_png), Some(Dir_a)>>}

\* The decode tab is open and empty.
InitTab ==
    /\ app = [NewApp(TRUE, TRUE) EXCEPT !.active_tab = "Decode"]
    /\ cancel_flag = FALSE
    /\ chan = <<>>
    /\ w = NoWorker
    /\ hist = NoHistory

\* render_input_section: files are dropped on the window.
TabDrop ==
    /\ app.active_tab = "Encode"
    /\ \E files \in DroppedFiles : app' = add_input_paths(app, files)
    /\ UNCHANGED <<cancel_flag, chan, w, hist>>

\* render_input_section: Add Files, Add Folder.
TabAddInputs ==
    /\ app.active_tab = "Encode"
    /\ \/ \E file \in {File_x_png} : app' = add_input_paths(app, <<Some(file)>>)
       \/ \E folder \in {Dir_a} : app' = push_input_path(app, folder)
    /\ UNCHANGED <<cancel_flag, chan, w, hist>>

\* render_input_section: Clear.
TabClearInputs ==
    /\ app.active_tab = "Encode"
    /\ app' = [app EXCEPT !.input_paths = <<>>]
    /\ UNCHANGED <<cancel_flag, chan, w, hist>>

\* Add JXL Files.
TabAddJxlFiles ==
    /\ app.active_tab = "Decode"
    /\ \E files \in PickedFiles : app' = add_jxl_files(app, files)
    /\ UNCHANGED <<cancel_flag, chan, w, hist>>

\* Add Folder.
TabAddFolder ==
    /\ app.active_tab = "Decode"
    /\ \E folder \in ScannedFolders :
          app' = add_jxl_files_from_folder(app, folder)
    /\ UNCHANGED <<cancel_flag, chan, w, hist>>

\* Clear, and the remove button of an item.
TabRemove ==
    /\ app.active_tab = "Decode"
    /\ \/ app' = [app EXCEPT !.decode_items = <<>>]
       \/ \E idx \in 0..(Len(app.decode_items) - 1) :
             app' = [app EXCEPT !.decode_items = Remove(@, idx)]
    /\ UNCHANGED <<cancel_flag, chan, w, hist>>

\* The Recursive checkbox.
TabRecursive ==
    /\ app.active_tab = "Decode"
    /\ app' = [app EXCEPT !.decode_settings.recursive = ~@]
    /\ UNCHANGED <<cancel_flag, chan, w, hist>>

\* The default format selector.
TabSelectDefaultFormat ==
    /\ app.active_tab = "Decode"
    /\ \E format \in OutputFormats : app' = select_default_format(app, format)
    /\ UNCHANGED <<cancel_flag, chan, w, hist>>

\* The format selector of an item.
TabSelectItemFormat ==
    /\ app.active_tab = "Decode"
    /\ \E idx \in 0..(Len(app.decode_items) - 1), format \in OutputFormats :
          app' = select_item_format(app, idx, format)
    /\ UNCHANGED <<cancel_flag, chan, w, hist>>

\* The decode tab, with its formats.
TabNext ==
    \/ TabAddJxlFiles
    \/ TabAddFolder
    \/ TabRemove
    \/ TabRecursive
    \/ TabSelectDefaultFormat
    \/ TabSelectItemFormat

TabSpec == InitTab /\ [][TabNext]_vars

\* The lists of the two tabs.
ListNext ==
    \/ SelectTab
    \/ TabDrop
    \/ TabAddInputs
    \/ TabClearInputs
    \/ TabAddJxlFiles
    \/ TabAddFolder
    \/ TabRemove
    \/ TabRecursive

ListSpec == InitTab /\ [][ListNext]_vars

\* ------------------------------- convert_single / decode_single by itself

Dir_root_a == <<Root, <<"a">> >>

Dir_root_a_b == <<Root, <<"a">>, <<"b">> >>

Dir_out == <<Root, <<"o", "u", "t">> >>

File_ab_x_png == <<Root, <<"a">>, <<"b">>, <<"x", ".", "p", "n", "g">> >>

File_ab_v_jpg == <<Root, <<"a">>, <<"b">>, <<"v", ".", "j", "p", "g">> >>

File_ac_y_png == <<Root, <<"a">>, <<"c">>, <<"y", ".", "p", "n", "g">> >>

File_ac_u_Jpg == <<Root, <<"a">>, <<"c">>, <<"u", ".", "J", "p", "g">> >>

File_ac_z_jxl == <<Root, <<"a">>, <<"c">>, <<"z", ".", "j", "x", "l">> >>

File_y_JPEG == <<VolC, <<"a">>, <<"s">>, <<"y", ".", "J", "P", "E", "G">> >>

\* Two names that are on no disk: one that is only an extension, and one
\* without any.
File_dot_jpg == <<Root, <<"a">>, <<"c">>, <<".", "j", "p", "g">> >>

File_jpg == <<Root, <<"a">>, <<"c">>, <<"j", "p", "g">> >>

\* The arguments convert_single / decode_single are called with.
SingleEncodeInputs ==
    {File_ab_x_png, File_ab_v_jpg, File_ac_y_png, File_ac_u_Jpg, File_y_JPEG,
     File_dot_jpg, File_jpg}

SingleDecodeInputs == {File_ac_z_jxl, File_w_JXL}

SingleBases == {None, Some(Dir_root_a), Some(Dir_root_a_b)}

SingleQualities == {1, 90, 100}

SingleEfforts == {1, 7, 9}

\* The worker inside convert_single / decode_single for the one item of
\* its work list.
SingleWorker(kind, item, settings, base) ==
    [NoWorker EXCEPT !.pc = "single", !.kind = kind, !.tool = TRUE,
                     !.input_paths = IF kind = "encode" THEN <<item>> ELSE <<>>,
                     !.decode_items = IF kind = "decode" THEN <<item>> ELSE <<>>,
                     !.settings = settings,
                     !.files = <<item>>,
                     !.total = 1,
                     !.base_path = base]

InitSingleEncode ==
    \E input_file \in SingleEncodeInputs, base \in SingleBases,
       keep_structure, lossless, jpeg_lossless \in BOOLEAN,
       quality \in SingleQualities, effort \in SingleEfforts :
        /\ w = SingleWorker("encode", input_file,
                            [ConversionSettings(Dir_out, TRUE, keep_structure)
                                EXCEPT !.lossless = lossless,
                                       !.jpeg_lossless = jpeg_lossless,
                                       !.quality = quality,
                                       !.effort = effort],
                            base)
        /\ hist = [NoHistory EXCEPT !.work = <<input_file>>]

InitSingleDecode ==
    \E input_file \in SingleDecodeInputs, base \in SingleBases,
       keep_structure \in BOOLEAN, format, default \in OutputFormats :
        /\ w = SingleWorker("decode", DecodeItem(input_file, format),
                            [DecodeSettings(Dir_out, keep_structure)
                                EXCEPT !.output_format = default],
                            base)
        /\ hist = [NoHistory EXCEPT !.work = <<input_file>>]

\* convert_single / decode_single is entered for an item, a base and
\* settings of the sets above, by the worker of a job that is running.
InitSingle ==
    /\ InitSingleEncode \/ InitSingleDecode
    /\ app = Starting(NewApp(TRUE, TRUE))
    /\ cancel_flag = FALSE
    /\ chan = <<>>

SingleNext == SingleLaunch \/ SingleExit

SingleSpec == InitSingle /\ [][SingleNext]_vars

\* convert_single / decode_single is entered as above, and the batch then
\* reports the result of the item.
ItemNext == SingleLaunch \/ SingleExit \/ BatchReport

ItemSpec == InitSingle /\ [][ItemNext]_vars

\* ---------------------- convert_batch / decode_batch with keep_structure

\* The paths the batch is called with: files and folders of two volumes,
\* some of them nested in others.
BaseRoots == {File_ab_x_png, File_ac_y_png, Dir_root_a_b, Dir_a_s, File_x_png}

BaseDecodeFiles == {File_ac_z_jxl, File_z_jxl, File_w_JXL}

\* The caller and the history of a job just started for the given worker.
StartedFor(wk) ==
    /\ app = Starting(IF wk.kind = "encode"
                      THEN [NewApp(TRUE, TRUE) EXCEPT
                               !.input_paths = wk.input_paths,
                               !.settings = wk.settings]
                      ELSE [NewApp(TRUE, TRUE) EXCEPT
                               !.decode_items = wk.decode_items,
                               !.decode_settings = wk.settings,
                               !.active_tab = "Decode"])
    /\ hist = [NoHistory EXCEPT
                  !.work = IF wk.kind = "encode" THEN WorkList(wk)
                           ELSE SelectedPaths(wk),
                  !.args = Some([kind |-> wk.kind,
                                 input_paths |-> wk.input_paths,
                                 decode_items |-> wk.decode_items,
                                 settings |-> wk.settings])]

\* convert_batch or decode_batch is entered with keep_structure on, for
\* a list of at most MaxSel different paths.
InitBase ==
    /\ \/ \E sel \in Selections(BaseRoots) :
             w = [NoWorker EXCEPT
                     !.pc = "tool", !.kind = "encode", !.tool = TRUE,
                     !.input_paths = sel,
                     !.settings = ConversionSettings(Dir_out, TRUE, TRUE)]
       \/ \E sel \in Selections(BaseDecodeFiles) :
             w = [NoWorker EXCEPT
                     !.pc = "tool", !.kind = "decode", !.tool = TRUE,
                     !.decode_items = [i \in DOMAIN sel |-> DecodeItem(sel[i], "Png")],
                     !.settings = DecodeSettings(Dir_out, TRUE)]
    /\ StartedFor(w)
    /\ cancel_flag = FALSE
    /\ chan = <<>>

\* The worker thread runs; the caller does nothing meanwhile.
BaseSpec == InitBase /\ [][Worker]_vars

\* ------------------------------ start_conversion / start_decode by itself

\* The caller is idle, with its tabs filled or not, the tools found or
\* not, and the flag and the counters as an earlier job may have left
\* them.
InitStart ==
    /\ \E cjxl, djxl, flag \in BOOLEAN, sel \in Selections(EncodeRoots),
          items \in DecodeSelections, out, decode_out \in {<<>>, OutDir},
          count \in {0, Cardinality(EncodeRoots)} :
          /\ app = [NewApp(cjxl, djxl) EXCEPT
                       !.input_paths = sel,
                       !.settings = ConversionSettings(out, TRUE, FALSE),
                       !.decode_items = items,
                       !.decode_settings = DecodeSettings(decode_out, FALSE),
                       !.current_progress = count,
                       !.total_files = count]
          /\ cancel_flag = flag
    /\ chan = <<>>
    /\ w = NoWorker
    /\ hist = NoHistory

\* start_conversion / start_decode is called, whatever can_start is.
CallStartConversion ==
    /\ w.pc = "none"
    /\ start_conversion(app, chan, hist)

CallStartDecode ==
    /\ w.pc = "none"
    /\ start_decode(app, chan, hist)

StartSpec == InitStart /\ [][CallStartConversion \/ CallStartDecode]_vars

\* ------------------------------------- the expansion and the filter alone

Dir_p == <<VolC, <<"p">> >>

File_im_png == <<VolC, <<"p">>, <<"i", "m", ".", "p", "n", "g">> >>

File_note_txt == <<VolC, <<"p">>, <<"n", "o", "t", "e", ".", "t", "x", "t">> >>

File_shot_JPEG == <<VolC, <<"p">>, <<"s", "h", "o", "t", ".", "J", "P", "E", "G">> >>

Dir_k == <<VolC, <<"k">> >>

Dir_k_d == <<VolC, <<"k">>, <<"d">> >>

Dir_k_u == <<VolC, <<"k">>, <<"u">> >>

File_k_f_png == <<VolC, <<"k">>, <<"f", ".", "p", "n", "g">> >>

\* The links of C:/k: to the folder d, to the file f.png, to nothing, and
\* to C:/k itself.
Link_k_l == <<VolC, <<"k">>, <<"l">> >>

Link_k_m_png == <<VolC, <<"k">>, <<"m", ".", "p", "n", "g">> >>

Link_k_b_png == <<VolC, <<"k">>, <<"b", ".", "p", "n", "g">> >>

Link_k_c == <<VolC, <<"k">>, <<"c">> >>

\* A path at which the disk has nothing.
Path_gone == <<VolC, <<"k">>, <<"g", "o", "n", "e">> >>

\* The roots convert_batch is called with.
ExpandRoots ==
    {Dir_p, Dir_q, Dir_k, Dir_k_d, Dir_k_u, File_k_f_png, File_note_txt,
     Link_k_l, Link_k_m_png, Link_k_b_png, Path_gone}

\* convert_batch is entered for at most MaxSel different roots, with
\* recursion on or off.
InitExpand ==
    /\ \E sel \in Selections(ExpandRoots), recursive \in BOOLEAN :
          w = [NoWorker EXCEPT
                  !.pc = "tool", !.kind = "encode", !.tool = TRUE,
                  !.input_paths = sel,
                  !.settings = ConversionSettings(OutDir, recursive, FALSE)]
    /\ StartedFor(w)
    /\ cancel_flag = FALSE
    /\ chan = <<>>

\* The worker expands, filters and sends Started.
ExpandSpec == InitExpand /\ [][BatchBegin]_vars

\* ------------------------------------------------------------ properties

\* The messages the worker of the current job has sent so far.
E == hist.emitted

Closing == {"Completed", "Cancelled"}

Outcomes == {"Success", "Error"}

Range(seq) == {seq[i] : i \in DOMAIN seq}

\* How many of the sent messages have one of the types T.
TypeCount(T) == Cardinality({i \in DOMAIN E : E[i].type \in T})

IsProgress(msg) == msg.type = "Progress"

ProgressEvents == SelectSeq(E, IsProgress)

\* The size of the current job's work list, and the path of its item i.
JobTotal == Len(hist.work)

ItemPath(i) == hist.work[i]

\* The worker of the current job runs with the tool located.
ToolLocated == w.pc # "none" /\ w.tool

\* C1: with the tool located, the messages of a batch are one Started, then
\* only Progress/Success/Error, then exactly one closing message (Completed
\* or Cancelled) after which the worker has returned and sends nothing.
C1_EventSequenceShape ==
    ToolLocated =>
        /\ (w.pc = "tool") <=> (E = <<>>)
        /\ \A i \in DOMAIN E : (E[i].type = "Started") <=> (i = 1)
        /\ \A i \in DOMAIN E : E[i].type \in Closing => i = Len(E)
        /\ \A i \in DOMAIN E :
              (1 < i /\ i < Len(E)) => E[i].type \in {"Progress", "Success", "Error"}
        /\ \A i \in DOMAIN E :
              E[i].type \in {"Started", "Progress", "Success", "Error"} \cup Closing
        /\ (w.pc = "done") <=> (E # <<>> /\ E[Len(E)].type \in Closing)

\* A finished batch that had a success and an error and ended with Completed.
C1_Witness ==
    /\ ToolLocated
    /\ w.pc = "done"
    /\ E[Len(E)].type = "Completed"
    /\ TypeCount({"Success"}) >= 1
    /\ TypeCount({"Error"}) >= 1

\* C2: a job whose work list has N >= 1 items sends Started{total=N} once,
\* first; the k-th Progress has current = k and the file of the k-th work
\* item; there are at most N, and exactly N when the batch sent Completed.
C2_ProgressCountsUp ==
    (ToolLocated /\ w.pc # "tool" /\ JobTotal >= 1) =>
        /\ E # <<>>
        /\ E[1] = Started(JobTotal)
        /\ TypeCount({"Started"}) = 1
        /\ Len(ProgressEvents) <= JobTotal
        /\ \A k \in DOMAIN ProgressEvents :
              /\ ProgressEvents[k].current = k
              /\ ProgressEvents[k].file = ItemPath(k)
        /\ E[Len(E)].type = "Completed" => Len(ProgressEvents) = JobTotal

\* A batch of three items that sent Completed.
C2_Witness ==
    /\ ToolLocated
    /\ JobTotal = 3
    /\ E # <<>>
    /\ E[Len(E)].type = "Completed"
    /\ Len(ProgressEvents) = 3

\* C3: a job whose work list is empty sends Started{total=0} and then
\* Completed, and nothing else, whatever the flag is.
C3_EmptyWorkList ==
    (ToolLocated /\ w.pc # "tool" /\ JobTotal = 0) =>
        \/ w.pc = "empty" /\ E = <<Started(0)>>
        \/ w.pc = "done" /\ E = <<Started(0), Completed>>

\* An empty job that sent Completed while the flag was set.
C3_Witness ==
    /\ ToolLocated
    /\ JobTotal = 0
    /\ E = <<Started(0), Completed>>
    /\ hist.flag_at_close

\* C4: when the flag is set at the boundary check before item k, the batch
\* has sent k-1 Success/Error messages, sends Cancelled and returns: no
\* Progress with current >= k, no process for item k or later, no Completed.
C4_CancelAtBoundary ==
    hist.boundary >= 1 =>
        /\ TypeCount(Outcomes) = hist.boundary - 1
        /\ E[Len(E)].type = "Cancelled"
        /\ TypeCount({"Cancelled"}) = 1
        /\ TypeCount({"Completed"}) = 0
        /\ \A i \in DOMAIN E : IsProgress(E[i]) => E[i].current < hist.boundary
        /\ \A i \in hist.launched : i < hist.boundary
        /\ w.pc = "done"

\* The flag was set at the boundary before the third item.
C4_Witness == hist.boundary = 3 /\ TypeCount(Outcomes) = 2

\* Where Progress{current=i} stands among the sent messages (0: nowhere).
ProgressPos(i) ==
    IF \E j \in DOMAIN E : IsProgress(E[j]) /\ E[j].current = i
    THEN CHOOSE j \in DOMAIN E : IsProgress(E[j]) /\ E[j].current = i
    ELSE 0

\* C5: an item i whose conversion returned an Err, of whatever kind, gets
\* one Error message with its path right after its Progress; the batch goes
\* on: the next message is Progress{i+1}, or Cancelled when the flag was set
\* at the next boundary, or Completed after the last item.
C5_ItemFailureContinues ==
    \A i \in hist.failed :
        LET j == ProgressPos(i)
        IN /\ j >= 1
           /\ j = Len(E) => (w.pc = "report" /\ w.idx + 1 = i /\ ~w.result.ok)
           /\ j < Len(E) => (E[j + 1].type = "Error" /\ E[j + 1].file = ItemPath(i))
           /\ j + 1 = Len(E) => (w.pc \in {"loop", "progress"} /\ w.idx = i)
           /\ j + 1 < Len(E) =>
                 \/ /\ i < JobTotal
                    /\ E[j + 2] = Progress(i + 1, JobTotal, ItemPath(i + 1))
                 \/ /\ i < JobTotal
                    /\ E[j + 2].type = "Cancelled"
                    /\ hist.boundary = i + 1
                 \/ /\ i = JobTotal
                    /\ E[j + 2].type = "Completed"

\* Every item of a batch of two or more failed and the batch sent Completed.
C5_Witness ==
    /\ ToolLocated
    /\ JobTotal >= 2
    /\ hist.failed = 1..JobTotal
    /\ E[Len(E)].type = "Completed"
    /\ TypeCount({"Error"}) = JobTotal

\* C6: a worker whose engine did not locate the tool sends one Error with
\* an empty file and returns: nothing else is sent, no process is launched.
C6_ToolNotLocated ==
    (w.pc # "none" /\ ~w.tool) =>
        /\ \/ w.pc = "tool" /\ E = <<>>
           \/ w.pc = "done" /\ E = <<[type |-> "Error", file |-> <<>>]>>
        /\ hist.launched = {}

\* The worker returned after the "not found" error.
C6_Witness ==
    /\ w.pc = "done"
    /\ ~w.tool
    /\ Len(E) = 1
    /\ E[1].type = "Error"

\* C7: every job the caller starts ends for the caller: once the worker
\* has returned and the caller has received all it sent, is_converting is
\* false again.
C7_JobReturnsToIdle ==
    (w.pc = "done" /\ chan = <<>>) => ~app.is_converting

StartedSent == E # <<>> /\ E[1].type = "Started"

BatchClosed ==
    /\ w.pc = "done"
    /\ E # <<>>
    /\ E[Len(E)].type \in Closing
    /\ ~ENABLED Worker

\* C8: a batch that sent Started sends Completed or Cancelled in the end,
\* after at most N items, and its worker then takes no further step.
C8_BatchTerminates ==
    /\ StartedSent ~> BatchClosed
    /\ [](StartedSent => Len(ProgressEvents) <= JobTotal)
    /\ []((w.pc = "done") => ~ENABLED Worker)

\* A batch of two or more items that went through all of them and closed.
C8_Witness ==
    /\ StartedSent
    /\ BatchClosed
    /\ JobTotal >= 2
    /\ TypeCount(Outcomes) = JobTotal

\* C9: Cancelled is sent only at an item boundary: every Progress sent
\* before it has its Success or Error, and an item that was being converted
\* when cancel was clicked still gets its Success or Error.
C9_CancelOnlyAtBoundaries ==
    /\ TypeCount({"Cancelled"}) >= 1 =>
          TypeCount({"Progress"}) = TypeCount(Outcomes)
    /\ \A j \in DOMAIN E :
          E[j].type = "Cancelled" =>
              (j > 1 /\ E[j - 1].type \in {"Started"} \cup Outcomes)
    /\ hist.cancel_during >= 1 =>
          LET j == ProgressPos(hist.cancel_during)
          IN /\ j >= 1
             /\ j = Len(E) => /\ w.pc \in {"single", "running", "report"}
                              /\ w.idx + 1 = hist.cancel_during
             /\ j < Len(E) => E[j + 1].type \in Outcomes

\* Cancel was clicked while the process of item 1 was being prepared or
\* run; the process ran, item 1 got its outcome, and then Cancelled came.
C9_Witness ==
    /\ hist.cancel_during = 1
    /\ 1 \in hist.launched
    /\ hist.boundary = 2
    /\ Len(E) = 4
    /\ E[3].type \in Outcomes
    /\ E[4].type = "Cancelled"

\* C10: a job sends Cancelled only when cancel was clicked after it was
\* started, and the flag is false when its worker is spawned.
C10_NoStaleCancellation ==
    /\ w.pc # "none" => ~hist.flag_at_spawn
    /\ TypeCount({"Cancelled"}) >= 1 => hist.cancel_clicked
    /\ hist.boundary >= 1 => hist.cancel_clicked

\* A job started while the flag was still set from an earlier job, never
\* cancelled itself, which went through its items and sent Completed.
C10_Witness ==
    /\ hist.flag_before
    /\ ~hist.cancel_clicked
    /\ JobTotal >= 1
    /\ E # <<>>
    /\ E[Len(E)].type = "Completed"

\* The last applied message of one of the types T (0: none).
LastApplied(T) ==
    LET A == hist.applied
        S == {i \in DOMAIN A : A[i].type \in T}
    IN IF S = {} THEN 0 ELSE CHOOSE i \in S : \A j \in S : j <= i

\* C11: a worker is spawned only when the worker spawned before it has
\* sent its last message and returned; whenever the start buttons can be
\* enabled (is_converting is false) no worker is running.
C11_OneWorkerAtATime ==
    /\ ~hist.overlap
    /\ ~app.is_converting => w.pc \in {"none", "done"}

\* A second job is running, started after the job before it was cancelled
\* and its worker had returned.
C11_Witness ==
    /\ hist.flag_before
    /\ ~hist.overlap
    /\ w.pc = "running"
    /\ app.is_converting

\* C12: the messages the caller has applied over all its polls, followed
\* by the messages still in the channel, are the messages the worker sent,
\* in the order it sent them; the caller's fields are those of the last
\* Progress applied; once a closing message is applied, everything sent
\* has been applied.
C12_DeliveryInOrder ==
    LET A == hist.applied
    IN /\ A \o ObservedAll(chan) = E
       /\ Len(A) <= Len(E) /\ A = SubSeq(E, 1, Len(A))
       /\ LastApplied({"Progress"}) >= 1 =>
             /\ app.current_progress = A[LastApplied({"Progress"})].current
             /\ app.is_converting =>
                   app.current_file = A[LastApplied({"Progress"})].file
       /\ LastApplied({"Started", "Progress"}) >= 1 =>
             app.total_files = A[LastApplied({"Started", "Progress"})].total
       /\ LastApplied(Closing) >= 1 => (A = E /\ chan = <<>> /\ ~app.is_converting)

\* The six messages of a batch of two items were all applied, the closing
\* message last.
C12_Witness ==
    /\ LastApplied(Closing) = Len(E)
    /\ Len(E) = 6
    /\ hist.applied = E

\* C14: the total of a batch never changes: the Started message carries
\* the length of the work list (the filtered expansion of an encode job,
\* the decode items of a decode job), and every Progress carries the total
\* of Started.
C14_TotalIsConstant ==
    (ToolLocated /\ E # <<>>) =>
        /\ E[1].type = "Started"
        /\ E[1].total = JobTotal
        /\ w.total = E[1].total
        /\ w.kind = "encode" =>
              JobTotal = Len(image_files(expand_paths(w.input_paths,
                                                      w.settings.recursive)))
        /\ w.kind = "decode" => JobTotal = Len(w.decode_items)
        /\ \A i \in DOMAIN E : IsProgress(E[i]) => E[i].total = E[1].total

\* The third Progress of an encode batch of three items was sent, after an
\* item had failed.
C14_Witness ==
    /\ w.kind = "encode"
    /\ Len(ProgressEvents) = 3
    /\ ProgressEvents[3].total = 3
    /\ hist.failed # {}

\* The caller's lists and settings when the current job was started.
JobArgs == Unwrap(hist.args)

\* The common base, the destination and the command of item i of the
\* current job, from the lists and settings the caller had at its start.
JobBase ==
    IF JobArgs.settings.keep_structure
    THEN find_common_base(SelectedPaths(JobArgs))
    ELSE None

JobDestination(i) ==
    output_path(ItemPath(i), JobArgs.settings.output_dir,
                JobArgs.settings.keep_structure, JobBase,
                IF JobArgs.kind = "encode" THEN Jxl
                ELSE format_extension(JobArgs.decode_items[i].output_format))

JobCommand(i) ==
    [output |-> JobDestination(i),
     args |-> IF JobArgs.kind = "encode"
              THEN encode_args(ItemPath(i), JobDestination(i), ItemPath(i),
                               JobArgs.settings)
              ELSE decode_args(ItemPath(i), JobDestination(i))]

\* The paths of the work list the worker goes through.
WorkerPaths ==
    [i \in DOMAIN w.files |->
        IF w.kind = "encode" THEN w.files[i] ELSE w.files[i].path]

\* C13: a job runs on the lists and settings the caller had when it was
\* started, whatever the caller edits meanwhile: the worker's lists and
\* settings, its work list, and the destination and the arguments of every
\* command are those the start-time values give.
C13_JobUsesStartTimeInputs ==
    w.pc # "none" =>
        /\ w.kind = JobArgs.kind
        /\ w.settings = JobArgs.settings
        /\ w.kind = "encode" => w.input_paths = JobArgs.input_paths
        /\ w.kind = "decode" => w.decode_items = JobArgs.decode_items
        /\ (w.tool /\ w.pc # "tool") =>
              /\ WorkerPaths = hist.work
              /\ w.kind = "decode" => w.files = JobArgs.decode_items
        /\ w.pc \in {"loop", "progress", "single", "running", "report"} =>
              w.base_path = JobBase
        /\ w.cmd # None => Unwrap(w.cmd) = JobCommand(w.idx + 1)

\* A decode process is running for an item whose output format the user
\* changed after the job was started; the command still has the extension
\* of the format chosen at the start.
C13_Witness ==
    /\ w.kind = "decode"
    /\ w.pc = "running"
    /\ hist.edits >= 1
    /\ Len(app.decode_items) >= 1
    /\ app.decode_items[1].path = w.decode_items[1].path
    /\ app.decode_items[1].output_format # w.decode_items[1].output_format
    /\ w.idx = 0
    /\ extension(file_name(Unwrap(w.cmd).output)) =
          Some(format_extension(w.decode_items[1].output_format))

\* The command of the item the worker is at: its arguments, and the texts
\* of the arguments from the i-th to the j-th.
CmdArgs == Unwrap(w.cmd).args

ArgTexts(i, j) == [k \in 1..(j + 1 - i) |-> CmdArgs[k + i - 1].text]

\* The inputs whose extension is jpg or jpeg in some spelling.
JpegInputs == {File_ab_v_jpg, File_ac_u_Jpg, File_y_JPEG}

QualityFlagNames == {"--lossless_jpeg=1", "-d", "-q"}

\* C15: the quality/lossless flag of an encode command, by precedence:
\* lossless and JPEG input give --lossless_jpeg=1 (whatever jpeg_lossless
\* is); lossless and another input give -d 0; not lossless, JPEG input and
\* jpeg_lossless give --lossless_jpeg=1; everything else gives -q quality.
\* Exactly one of the three flags is passed; an input is JPEG when its
\* extension is jpg or jpeg in any case.
C15_QualityFlagPrecedence ==
    (w.kind = "encode" /\ w.cmd # None) =>
        LET jpeg == CurrentFile(w) \in JpegInputs
            Q == ArgTexts(3, Len(CmdArgs) - 2)
            st == w.settings
        IN /\ (st.lossless /\ jpeg) => Q = <<"--lossless_jpeg=1">>
           /\ (st.lossless /\ ~jpeg) => Q = <<"-d", "0">>
           /\ (~st.lossless /\ jpeg /\ st.jpeg_lossless) =>
                 Q = <<"--lossless_jpeg=1">>
           /\ (~st.lossless /\ ~(jpeg /\ st.jpeg_lossless)) =>
                 Q = <<"-q", ToString(st.quality)>>
           /\ Cardinality({k \in DOMAIN CmdArgs :
                              CmdArgs[k].text \in QualityFlagNames}) = 1

\* A JPEG input with lossless on and jpeg_lossless off got
\* --lossless_jpeg=1, and its process is running.
C15_Witness ==
    /\ w.kind = "encode"
    /\ w.pc = "running"
    /\ w.settings.lossless
    /\ ~w.settings.jpeg_lossless
    /\ CurrentFile(w) = File_ac_u_Jpg
    /\ ArgTexts(3, 3) = <<"--lossless_jpeg=1">>

\* C16: the arguments of an encode command are the input, the output, the
\* quality/lossless flag, then -e and the effort, in this order; -e is
\* there in lossless mode as in quality mode.
C16_EncodeArgumentOrder ==
    (w.kind = "encode" /\ w.cmd # None) =>
        LET n == Len(CmdArgs)
        IN /\ n \in {5, 6}
           /\ CmdArgs[1] = PathArg(CurrentFile(w))
           /\ CmdArgs[2] = PathArg(Unwrap(w.cmd).output)
           /\ extension(file_name(CmdArgs[2].path)) = Some(Jxl)
           /\ \A k \in 3..n : CmdArgs[k].kind = "text"
           /\ CmdArgs[3].text \in QualityFlagNames
           /\ ArgTexts(n - 1, n) = <<"-e", ToString(w.settings.effort)>>
           /\ \A k \in 1..n : CmdArgs[k].text = "-e" => k = n - 1

\* A lossless command for a PNG input: input, output, -d 0, -e 9.
C16_Witness ==
    /\ w.kind = "encode"
    /\ w.pc = "running"
    /\ w.settings.lossless
    /\ CmdArgs = <<PathArg(File_ab_x_png), PathArg(Unwrap(w.cmd).output),
                   TextArg("-d"), TextArg("0"), TextArg("-e"), TextArg("9")>>

\* The canonical extension of each output format.
CanonicalExtension ==
    [f \in {"Png", "Jpeg", "Ppm", "Pgm", "Pbm"} |->
        CASE f = "Png"  -> <<"p", "n", "g">>
          [] f = "Jpeg" -> <<"j", "p", "g">>
          [] f = "Ppm"  -> <<"p", "p", "m">>
          [] f = "Pgm"  -> <<"p", "g", "m">>
          [] f = "Pbm"  -> <<"p", "b", "m">>]

\* C17: a decode command has two arguments, the input and the output, and
\* the output has the canonical extension of the item's own format, not
\* of the job's default format.
C17_DecodeArguments ==
    (w.kind = "decode" /\ w.cmd # None) =>
        /\ Len(CmdArgs) = 2
        /\ CmdArgs[1] = PathArg(CurrentFile(w))
        /\ CmdArgs[2] = PathArg(Unwrap(w.cmd).output)
        /\ extension(file_name(CmdArgs[2].path)) =
              Some(CanonicalExtension[w.files[w.idx + 1].output_format])

\* A decode process is running for an item set to Pbm in a job whose
\* default format is Jpeg.
C17_Witness ==
    /\ w.kind = "decode"
    /\ w.pc = "running"
    /\ w.files[1].output_format = "Pbm"
    /\ w.settings.output_format = "Jpeg"
    /\ file_name(CmdArgs[2].path) = <<"z", ".", "p", "b", "m">>

\* The input lies under the base the worker was given.
UnderBase(f, base) ==
    /\ base # None
    /\ Len(Unwrap(base)) <= Len(f)
    /\ \A i \in 1..Len(Unwrap(base)) : f[i] = Unwrap(base)[i]

\* C18: the destination is output_dir / bare name when keep-structure is
\* off, when there is no base, or when the input is not under the base,
\* and output_dir / (the input relative to the base) otherwise, with the
\* extension replaced by the target extension.  /a/b/x.png and /a/c/y.png
\* have the common base /a and go to /out/b/x.jxl and /out/c/y.jxl.
C18_Destination ==
    /\ find_common_base(<<File_ab_x_png, File_ac_y_png>>) = Some(Dir_root_a)
    /\ w.cmd # None =>
        LET f == CurrentFile(w)
            out == Unwrap(w.cmd).output
            dir == w.settings.output_dir
            kept == w.settings.keep_structure /\ UnderBase(f, w.base_path)
            skip == IF kept THEN Len(Unwrap(w.base_path)) ELSE Len(f) - 1
            ext == IF w.kind = "encode" THEN Jxl
                   ELSE CanonicalExtension[w.files[w.idx + 1].output_format]
        IN /\ Len(out) = Len(dir) + Len(f) - skip
           /\ \A i \in 1..Len(dir) : out[i] = dir[i]
           /\ \A i \in (skip + 1)..(Len(f) - 1) : out[Len(dir) + i - skip] = f[i]
           /\ extension(file_name(out)) = Some(ext)
           /\ file_stem(file_name(out)) = file_stem(file_name(f))
           /\ (w.kind = "encode" /\ w.settings.keep_structure
                  /\ w.base_path = Some(Dir_root_a) /\ dir = Dir_out) =>
                 /\ f = File_ab_x_png =>
                       out = <<Root, <<"o", "u", "t">>, <<"b">>,
                               <<"x", ".", "j", "x", "l">> >>
                 /\ f = File_ac_y_png =>
                       out = <<Root, <<"o", "u", "t">>, <<"c">>,
                               <<"y", ".", "j", "x", "l">> >>

\* /a/c/y.png with keep-structure on and the base /a is being converted
\* to /out/c/y.jxl.
C18_Witness ==
    /\ w.kind = "encode"
    /\ w.pc = "running"
    /\ w.settings.keep_structure
    /\ w.base_path = Some(Dir_root_a)
    /\ CurrentFile(w) = File_ac_y_png
    /\ Unwrap(w.cmd).output =
          <<Root, <<"o", "u", "t">>, <<"c">>, <<"y", ".", "j", "x", "l">> >>

\* The directory of a selected path as the disk gives it: the containing
\* directory of a file, the path itself otherwise.
Candidate(p) ==
    IF \E n \in FsNodes : n.path = p /\ n.kind = "file"
    THEN SubSeq(p, 1, Len(p) - 1)
    ELSE p

AncestorOrSelf(d, p) ==
    /\ Len(d) <= Len(p)
    /\ \A i \in 1..Len(d) : p[i] = d[i]

\* The selected paths of the current job, and the same paths in another
\* order.
Selected == SelectedPaths(JobArgs)

Reordered ==
    {[i \in DOMAIN Selected |-> Selected[f[i]]] : f \in Permutations(DOMAIN Selected)}

\* The worker is past the computation of the base.
BaseComputed ==
    /\ w.pc \in {"loop", "progress", "single", "running", "report", "done"}
    /\ w.total >= 1
    /\ w.settings.keep_structure

\* C19: a base that find_common_base returns for a non-empty list is an
\* ancestor-or-self of the directory of every selected path and the
\* deepest such directory, and the same base is returned for the paths in
\* any other order.
C19_DeepestCommonAncestor ==
    (BaseComputed /\ w.base_path # None) =>
        LET B == Unwrap(w.base_path)
        IN /\ \A i \in DOMAIN Selected : AncestorOrSelf(B, Candidate(Selected[i]))
           /\ \A i \in DOMAIN Selected :
                 \A k \in (Len(B) + 1)..Len(Candidate(Selected[i])) :
                    \E j \in DOMAIN Selected :
                       ~AncestorOrSelf(SubSeq(Candidate(Selected[i]), 1, k),
                                       Candidate(Selected[j]))
           /\ \A q \in Reordered : find_common_base(q) = Some(B)

\* The file /a/c/y.png and the folder /a/b were selected: the base is
\* their common parent /a, and an item of the job is being converted.
C19_Witness ==
    /\ BaseComputed
    /\ Len(Selected) = 2
    /\ Selected[1] = File_ac_y_png
    /\ Selected[2] = Dir_root_a_b
    /\ w.base_path = Some(Dir_root_a)
    /\ w.pc = "running"

\* The error texts convert_single / decode_single can return.
SingleErrorTexts ==
    ResolveErrors \cup {"Failed to execute cjxl: ", "Failed to execute djxl: ",
                        "cjxl failed: ", "djxl failed: "}

\* C20: find_common_base returns no base for an empty list and when the
\* directories have no common ancestor (the walk upward runs out of
\* parents), and it always returns; a job with keep-structure on and no
\* base goes through every item, each destination flat in output_dir, and
\* no Error is sent for the missing base.
C20_NoBaseFallsBackToFlat ==
    /\ find_common_base(<<>>) = None
    /\ w.pc = "empty" => ENABLED BatchEmptyCheck
    /\ BaseComputed =>
          (w.base_path = None <=>
              \E i, j \in DOMAIN Selected :
                  Candidate(Selected[i])[1] # Candidate(Selected[j])[1])
    /\ (BaseComputed /\ w.base_path = None) =>
          /\ \A i \in DOMAIN E : E[i].type = "Error" => E[i].file \in Range(hist.work)
          /\ (w.pc = "report" /\ ~w.result.ok) =>
                w.result.error.text \in SingleErrorTexts
          /\ w.cmd # None =>
                LET out == Unwrap(w.cmd).output
                IN /\ Len(out) = Len(w.settings.output_dir) + 1
                   /\ SubSeq(out, 1, Len(out) - 1) = w.settings.output_dir
                   /\ file_stem(file_name(out)) = file_stem(file_name(CurrentFile(w)))
          /\ w.pc = "done" =>
                /\ E[Len(E)].type = "Completed"
                /\ TypeCount({"Progress"}) = JobTotal
                /\ TypeCount(Outcomes) = JobTotal

\* A job for paths of two volumes, with keep-structure on, found no base
\* and converted all its items.
C20_Witness ==
    /\ BaseComputed
    /\ w.base_path = None
    /\ w.pc = "done"
    /\ JobTotal >= 2
    /\ TypeCount({"Success"}) = JobTotal

\* The extensions of the encode filter, and the letters in them.
FilterExtensions == {
    <<"j", "p", "g">>, <<"j", "p", "e", "g">>, <<"p", "n", "g">>,
    <<"g", "i", "f">>, <<"b", "m", "p">>, <<"t", "i", "f", "f">>,
    <<"t", "i", "f">>, <<"w", "e", "b", "p">>, <<"p", "p", "m">>,
    <<"p", "g", "m">>, <<"p", "n", "m">> }

UpperLower == {<<"B", "b">>, <<"E", "e">>, <<"F", "f">>, <<"G", "g">>,
               <<"I", "i">>, <<"J", "j">>, <<"L", "l">>, <<"M", "m">>,
               <<"N", "n">>, <<"P", "p">>, <<"T", "t">>, <<"W", "w">>,
               <<"X", "x">>}

\* The name ends with a dot that is not its first character, followed by
\* e in some spelling of upper and lower case.
EndsWithExtension(name, e) ==
    /\ Len(name) > Len(e) + 1
    /\ name[Len(name) - Len(e)] = "."
    /\ \A i \in 1..Len(e) :
          LET c == name[Len(name) - Len(e) + i]
          IN c = e[i] \/ <<c, e[i]>> \in UpperLower

Recognized(path) ==
    \E e \in FilterExtensions : EndsWithExtension(file_name(path), e)

\* The worker has expanded and filtered its roots.
Filtered == w.kind = "encode" /\ w.tool /\ w.pc # "tool"

\* The expansion of the roots of the current job.
Expansion == expand_paths(w.input_paths, w.settings.recursive)

\* C21: the work list of an encode job is the expansion without the files
\* that have no extension or an extension that, lowercased, is not one of
\* jpg, jpeg, png, gif, bmp, tiff, tif, webp, ppm, pgm, pnm; the files kept
\* are in the order of the expansion.  A folder of im.png, note.txt and
\* shot.JPEG, not recursive, gives im.png and shot.JPEG.
C21_EncodeFilter ==
    Filtered =>
        /\ w.files = SelectSeq(Expansion, Recognized)
        /\ (w.input_paths = <<Dir_p>> /\ ~w.settings.recursive) =>
              /\ Expansion = <<File_im_png, File_note_txt, File_shot_JPEG>>
              /\ w.files = <<File_im_png, File_shot_JPEG>>

\* The folder of every extension was filtered: of its eighteen files the
\* eleven with a supported extension are left, r.txt.png among them.
C21_Witness ==
    /\ Filtered
    /\ w.input_paths = <<Dir_q>>
    /\ Len(Expansion) = 18
    /\ Len(w.files) = 11
    /\ \E i \in DOMAIN w.files : file_name(w.files[i]) =
                                     <<"r", ".", "t", "x", "t", ".", "p", "n", "g">>

\* The process of item i was launched and has ended with a status that is
\* not zero; it was launched and has ended with status zero.
ExitedNonZero(i) == i \in hist.launched /\ i \in hist.failed

ExitedZero(i) ==
    /\ i \in hist.launched
    /\ i \notin hist.failed
    /\ (w.idx >= i \/ w.pc = "report")

\* C22: an item whose process ended with a status that is not zero gets an
\* Error message with its path and no Success, whatever the process wrote
\* to its standard error; a Success is sent only for an item whose process
\* was launched and ended with status zero.
C22_NonZeroExitIsError ==
    /\ w.pc = "report" => (w.result.ok <=> ExitedZero(1))
    /\ ExitedNonZero(1) =>
          /\ w.pc = "loop" => Len(chan) = 1
          /\ \A k \in DOMAIN chan :
                /\ chan[k].type = "Error"
                /\ chan[k].file = ItemPath(1)
                /\ chan[k].error.text \in {"cjxl failed: ", "djxl failed: "}
    /\ \A k \in DOMAIN chan : chan[k].type = "Success" => ExitedZero(1)
    /\ \A k \in DOMAIN E : E[k].type = "Success" => ExitedZero(1)

\* The encoder ended with a status that is not zero and wrote nothing to
\* its standard error: the Error of the item was sent, with an empty text
\* after "cjxl failed: ".
C22_Witness ==
    /\ ExitedNonZero(1)
    /\ w.kind = "encode"
    /\ w.pc = "loop"
    /\ Len(chan) = 1
    /\ chan[1].type = "Error"
    /\ chan[1].error = [text |-> "cjxl failed: ", detail |-> ""]

\* The destination of the item the worker is at, before it is resolved.
CurrentDestination ==
    output_path(CurrentFile(w), w.settings.output_dir, w.settings.keep_structure,
                w.base_path, TargetExtension(w))

IsSuccess(msg) == msg.type = "Success"

PlainFileRoots == {File_k_f_png, File_note_txt, Link_k_m_png}

DirectoryOf(root) ==
    CASE root \in {Dir_p, Dir_q, Dir_k, Dir_k_d, Dir_k_u} -> Some(root)
      [] root = Link_k_l -> Some(Dir_k_d)
      [] OTHER -> None

\* The plain files below a directory: the immediate children, or the
\* files at any depth; nothing is below a link, and nothing can be seen
\* below a directory that cannot be listed.
PlainBelow(dir, recursive) ==
    {n \in FsNodes :
        /\ n.kind = "file"
        /\ Len(n.path) > Len(dir)
        /\ \A k \in 1..Len(dir) : n.path[k] = dir[k]
        /\ recursive \/ Len(n.path) = Len(dir) + 1
        /\ \A k \in Len(dir)..(Len(n.path) - 1) :
              SubSeq(n.path, 1, k) \notin FsUnreadable}

\* What a root contributes: the files below it in the order of the disk,
\* named from the root.
Contribution(root, recursive) ==
    IF root \in PlainFileRoots THEN <<root>>
    ELSE IF DirectoryOf(root) = None THEN <<>>
    ELSE LET dir == Unwrap(DirectoryOf(root))
             found == SelectSeq(FsListing,
                                LAMBDA n : n \in PlainBelow(dir, recursive))
         IN [i \in 1..Len(found) |->
                root \o SubSeq(found[i].path, Len(dir) + 1, Len(found[i].path))]

RECURSIVE Contributions(_, _)
Contributions(roots, recursive) ==
    IF roots = <<>> THEN <<>>
    ELSE Contribution(Head(roots), recursive)
         \o Contributions(Tail(roots), recursive)

\* C24: the expansion is, root after root, the root itself when it is a
\* file; the plain files that are immediate children of a directory when
\* recursion is off; the plain files at any depth below it when recursion
\* is on, links not followed; nothing for a root that is neither, for a
\* link below a root and for what a directory that cannot be listed
\* holds, and the expansion goes on with the next entry and the next root.
C24_Expansion ==
    (w.kind = "encode" /\ w.tool /\ w.pc # "tool") =>
        LET recursive == w.settings.recursive
            k == <<VolC, <<"k">> >>
        IN /\ Expansion = Contributions(w.input_paths, recursive)
           /\ w.total = Len(SelectSeq(Expansion, Recognized))
           /\ (w.input_paths = <<Dir_k>> /\ ~recursive) =>
                 Expansion = <<File_k_f_png>>
           /\ (w.input_paths = <<Dir_k>> /\ recursive) =>
                 Expansion = <<File_k_f_png,
                               k \o << <<"d">>, <<"g", ".", "p", "n", "g">> >>,
                               k \o << <<"d">>, <<"e">>, <<"h", ".", "p", "n", "g">> >> >>
           /\ (w.input_paths = <<Link_k_l>> /\ ~recursive) =>
                 Expansion = << k \o << <<"l">>, <<"g", ".", "p", "n", "g">> >> >>
           /\ w.input_paths = <<Link_k_m_png>> => Expansion = <<Link_k_m_png>>
           /\ w.input_paths \in {<<Dir_k_u>>, <<Path_gone>>, <<Link_k_b_png>>} =>
                 Expansion = <<>>

\* A missing path and the folder C:/k were expanded with recursion on:
\* the three plain files of C:/k, C:/k/d and C:/k/d/e are the work list.
C24_Witness ==
    /\ w.kind = "encode"
    /\ w.pc = "empty"
    /\ w.settings.recursive
    /\ w.input_paths = <<Path_gone, Dir_k>>
    /\ Len(w.files) = 3
    /\ w.files[1] = File_k_f_png
    /\ file_name(w.files[3]) = <<"h", ".", "p", "n", "g">>

\* C25: the work list of an encode job holds every plain file reachable
\* from the roots once, also when a selected folder holds another selected
\* root: no path is twice in the work list, no two Progress messages name
\* the same file, and no file has two processes launched for it.
C25_ExpansionIsASet ==
    (w.kind = "encode" /\ w.tool /\ w.pc # "tool") =>
        /\ \A i, j \in DOMAIN w.files : i # j => w.files[i] # w.files[j]
        /\ \A i, j \in DOMAIN ProgressEvents :
              i # j => ProgressEvents[i].file # ProgressEvents[j].file
        /\ \A i, j \in hist.launched : i # j => ItemPath(i) # ItemPath(j)

\* C26: in a batch every Progress is followed by one Success or Error for
\* the same item, and then by the next Progress or the closing message;
\* a Success or Error comes only right after a Progress; the number of
\* Success and Error messages is the number of Progress messages or one
\* less, and the same once the closing message is sent.
C26_OneOutcomePerProgress ==
    ToolLocated =>
        /\ \A j \in DOMAIN E :
              IsProgress(E[j]) =>
                 /\ j = Len(E) => /\ w.pc \in {"single", "running", "report"}
                                  /\ w.idx + 1 = E[j].current
                 /\ j < Len(E) => /\ E[j + 1].type \in Outcomes
                                  /\ E[j + 1].file = E[j].file
                 /\ j + 1 < Len(E) => E[j + 2].type \in {"Progress"} \cup Closing
        /\ \A j \in DOMAIN E :
              E[j].type \in Outcomes => (j > 1 /\ IsProgress(E[j - 1]))
        /\ TypeCount({"Progress"}) - TypeCount(Outcomes) \in {0, 1}
        /\ TypeCount(Closing) >= 1 => TypeCount(Outcomes) = TypeCount({"Progress"})

\* A batch of two items: Progress, Error, Progress, Success, Completed.
C26_Witness ==
    /\ ToolLocated
    /\ Len(E) = 6
    /\ IsProgress(E[2]) /\ E[3].type = "Error"
    /\ IsProgress(E[4]) /\ E[5].type = "Success"
    /\ E[6].type = "Completed"

\* A precondition of start_conversion, of start_decode, does not hold.
EncodeNotReady ==
    \/ ~app.engine.cjxl_path
    \/ Len(app.input_paths) = 0
    \/ Len(app.settings.output_dir) = 0

DecodeNotReady ==
    \/ ~app.engine.djxl_path
    \/ Len(app.decode_items) = 0
    \/ Len(app.decode_settings.output_dir) = 0

\* Nothing but the log has changed, and the log has one more entry.
OnlyLogged ==
    /\ w' = w
    /\ app' = app
    /\ cancel_flag' = cancel_flag
    /\ chan' = chan
    /\ Len(hist'.start_log) = 1
    /\ hist'.start_log[1].level \in {"Error", "Warning"}

\* C27: a call of start_conversion or start_decode whose precondition
\* fails (tool not available, nothing selected, no output directory)
\* starts no job: no worker is spawned, is_converting, the flag, the
\* channel and the counters are unchanged, and one log entry is appended.
C27_RefusedStartChangesNothing ==
    [][ /\ (CallStartConversion /\ EncodeNotReady) => OnlyLogged
        /\ (CallStartDecode /\ DecodeNotReady) => OnlyLogged ]_vars

\* start_conversion was called with a selection and without an output
\* directory: the flag and the counters an earlier job left are still
\* there, no worker runs and the warning is in the log.
C27_Witness ==
    /\ hist.start_log = <<LogEntry("Warning", "No output directory selected.")>>
    /\ app.input_paths # <<>>
    /\ w.pc = "none"
    /\ ~app.is_converting /\ ~app.progress_rx
    /\ cancel_flag
    /\ app.current_progress > 0
    /\ chan = <<>>

\* The items the list held are still there, in place, with their paths.
SamePaths ==
    /\ Len(app'.decode_items) = Len(app.decode_items)
    /\ \A i \in DOMAIN app.decode_items :
          app'.decode_items[i].path = app.decode_items[i].path

\* C28: selecting a default output format gives that format to every item
\* in the list; an item added later has the default format of the moment
\* it is added, and the items before it are untouched; a per-item choice
\* changes the format of that item and nothing else.
C28_DefaultFormat ==
    [][ /\ TabSelectDefaultFormat =>
              /\ SamePaths
              /\ \A i \in DOMAIN app'.decode_items :
                    app'.decode_items[i].output_format =
                        app'.decode_settings.output_format
        /\ (TabAddJxlFiles \/ TabAddFolder) =>
              /\ app'.decode_settings = app.decode_settings
              /\ Len(app'.decode_items) >= Len(app.decode_items)
              /\ \A i \in DOMAIN app'.decode_items :
                    IF i <= Len(app.decode_items)
                    THEN app'.decode_items[i] = app.decode_items[i]
                    ELSE app'.decode_items[i].output_format =
                             app.decode_settings.output_format
        /\ TabSelectItemFormat =>
              /\ SamePaths
              /\ app'.decode_settings = app.decode_settings
              /\ Cardinality({i \in DOMAIN app.decode_items :
                                 app'.decode_items[i] # app.decode_items[i]}) <= 1
      ]_vars

\* z.jxl was added under the first default, the default was changed, w.JXL
\* was added, and z.jxl was then given a format of its own.
C28_Witness ==
    /\ app.decode_settings.output_format = "Jpeg"
    /\ app.decode_items = <<DecodeItem(File_z_jxl, "Pbm"),
                            DecodeItem(File_w_JXL, "Jpeg")>>
    /\ ~app.is_converting

\* The flag was set while the batch was running: its worker had sent
\* Started and no closing message.
CancelledWhileRunning ==
    /\ hist.cancel_set # None
    /\ Unwrap(hist.cancel_set).sent >= 1
    /\ E[1].type = "Started"
    /\ \A i \in 1..Unwrap(hist.cancel_set).sent : E[i].type \notin Closing

\* The messages sent after the flag was set, up to the closing one.
SentAfterCancel ==
    LET after == SubSeq(E, Unwrap(hist.cancel_set).sent + 1, Len(E))
        closed == {i \in DOMAIN after : after[i].type \in Closing}
    IN IF closed = {} THEN after
       ELSE SubSeq(after, 1, (CHOOSE i \in closed : \A j \in closed : i <= j) - 1)

IsOutcome(msg) == msg.type \in Outcomes

\* C29: once the flag is set during a running batch the worker sends at
\* most one more Progress and at most one more Success / Error before its
\* closing message, and nothing after the closing message.
C29_BoundedResponseToCancel ==
    CancelledWhileRunning =>
        /\ Len(SelectSeq(SentAfterCancel, IsProgress)) <= 1
        /\ Len(SelectSeq(SentAfterCancel, IsOutcome)) <= 1
        /\ \A i \in DOMAIN E : E[i].type \in Closing => i = Len(E)
        /\ \A i \in DOMAIN SentAfterCancel :
              SentAfterCancel[i].type \in {"Progress"} \cup Outcomes
        /\ w.pc = "done" => E[Len(E)].type \in Closing

\* The flag was set after the boundary check of item 1 of 3 and before
\* its Progress was sent: the worker sent that Progress and the outcome
\* of item 1, and then Cancelled.
C29_Witness ==
    /\ CancelledWhileRunning
    /\ JobTotal = 3
    /\ Unwrap(hist.cancel_set).sent = 1
    /\ Len(SentAfterCancel) = 2
    /\ SentAfterCancel[1].type = "Progress"
    /\ SentAfterCancel[2].type \in Outcomes
    /\ E[Len(E)].type = "Cancelled"
    /\ w.pc = "done"

\* The flag was first set when the worker had passed the boundary check
\* of the last item of a batch that has items.
CancelledAfterLastCheck ==
    /\ hist.cancel_set # None
    /\ JobTotal >= 1
    /\ Unwrap(hist.cancel_set).passed = JobTotal

\* C30: a cancellation first set after the boundary check of the last
\* item N is not reported: no Cancelled is sent, and the batch ends with
\* Completed after the outcome of item N.  And a batch that sent Cancelled
\* left at least one item without Progress and without outcome.
C30_LateCancelIsNotReported ==
    /\ CancelledAfterLastCheck =>
          /\ \A i \in DOMAIN E : E[i].type # "Cancelled"
          /\ w.pc = "done" =>
                /\ E[Len(E)].type = "Completed"
                /\ TypeCount(Outcomes) = JobTotal
                /\ E[Len(E) - 1].type \in Outcomes
                /\ E[Len(E) - 1].file = ItemPath(JobTotal)
    /\ (\E i \in DOMAIN E : E[i].type = "Cancelled") =>
          /\ TypeCount({"Progress"}) < JobTotal
          /\ TypeCount(Outcomes) < JobTotal
          /\ hist.boundary >= 1
          /\ TypeCount(Outcomes) = hist.boundary - 1

\* The flag was set while the last of three items was being converted;
\* the worker has returned after Completed, with the flag still set.
C30_Witness ==
    /\ CancelledAfterLastCheck
    /\ JobTotal = 3
    /\ Unwrap(hist.cancel_set).sent = 6
    /\ cancel_flag
    /\ w.pc = "done"
    /\ E[Len(E)].type = "Completed"
    /\ TypeCount(Outcomes) = 3

\* The parts of a preview between the program name and the two
\* placeholder paths.
ShownFlags(preview) == SubSeq(preview, 2, Len(preview) - 2)

\* The arguments of the launched command that are not paths, in order.
PassedFlags ==
    LET IsText(arg) == arg.kind = "text"
        texts == SelectSeq(CmdArgs, IsText)
    IN [i \in 1..Len(texts) |-> texts[i].text]

\* C31: for every settings value and an input of either kind, the flags
\* the preview of that kind shows (quality or lossless, then effort) are
\* the flags convert_single passes to cjxl, with the same values and in
\* the same order.
C31_PreviewMatchesCommand ==
    (w.kind = "encode" /\ w.cmd # None) =>
        LET preview == generate_command_preview(w.settings,
                                                is_jpeg(CurrentFile(w)))
        IN /\ preview[1] = "cjxl"
           /\ ShownFlags(preview) = PassedFlags
           /\ Len(PassedFlags) \in {3, 4}
           /\ preview[Len(preview) - 1] =
                 IF is_jpeg(CurrentFile(w)) THEN "input.jpg" ELSE "input.png"

\* A lossy job with per-format lossless on runs cjxl for a JPEG input: the
\* command and the JPEG preview both carry --lossless_jpeg=1 -e 7, and the
\* preview for other inputs carries -q 90 -e 7.
C31_Witness ==
    /\ w.kind = "encode"
    /\ w.pc = "running"
    /\ CurrentFile(w) = File_ac_u_Jpg
    /\ ~w.settings.lossless /\ w.settings.jpeg_lossless
    /\ PassedFlags = <<"--lossless_jpeg=1", "-e", "7">>
    /\ generate_command_preview(w.settings, TRUE) =
          <<"cjxl", "--lossless_jpeg=1", "-e", "7", "input.jpg", "output.jxl">>
    /\ generate_command_preview(w.settings, FALSE) =
          <<"cjxl", "-q", "90", "-e", "7", "input.png", "output.jxl">>

\* No element twice.
Distinct(seq) == \A i, j \in DOMAIN seq : i # j => seq[i] # seq[j]

\* The paths of the decode items, in order.
ItemPaths(a) == [i \in DOMAIN a.decode_items |-> a.decode_items[i].path]

\* C32: whatever was added, dropped, removed and cleared, input_paths
\* holds no path twice and no two decode items have the same path; and
\* what a folder scan adds to decode_items are plain files whose name ends
\* in .jxl, in any spelling of upper and lower case.
C32_NoDuplicates ==
    /\ [](Distinct(app.input_paths) /\ Distinct(ItemPaths(app)))
    /\ [][TabAddFolder =>
            /\ Len(app'.decode_items) >= Len(app.decode_items)
            /\ \A i \in DOMAIN app'.decode_items :
                  IF i <= Len(app.decode_items)
                  THEN app'.decode_items[i] = app.decode_items[i]
                  ELSE /\ EndsWithExtension(file_name(app'.decode_items[i].path), Jxl)
                       /\ \E n \in FsNodes :
                             /\ n.path = app'.decode_items[i].path
                             /\ n.kind = "file"]_vars

\* The same folder was dropped twice and x.png was added twice, and the
\* encode list has each once; on the decode tab w.JXL was picked and the
\* folders holding z.jxl, w.JXL and k.jxl were scanned, and each file is in
\* the list once, k.jxl being the only file of its folder in it.
C32_Witness ==
    /\ app.input_paths = <<Dir_a, File_x_png>>
    /\ Len(app.decode_items) = 3
    /\ ItemPaths(app)[1] = File_w_JXL
    /\ ItemPaths(app)[2] = File_z_jxl
    /\ file_name(ItemPaths(app)[3]) = <<"k", ".", "j", "x", "l">>
    /\ parent(ItemPaths(app)[3]) = Some(Dir_q)

\* A job was started, and the types of its messages the caller has
\* applied.
JobStarted == hist.args # None

AppliedTypes == {hist.applied[i].type : i \in DOMAIN hist.applied}

\* C33: current_progress never exceeds total_files; both are 0 from the
\* start of a job until a Started or Progress of that job is applied; and
\* is_converting is true exactly when a job was started and its Completed
\* or Cancelled has not been applied, the receiver being there exactly
\* as long.
C33_CallerCounters ==
    /\ app.current_progress <= app.total_files
    /\ (JobStarted /\ AppliedTypes \cap {"Started", "Progress"} = {}) =>
          (app.current_progress = 0 /\ app.total_files = 0)
    /\ ~JobStarted => (app.current_progress = 0 /\ app.total_files = 0)
    /\ app.is_converting <=> (JobStarted /\ AppliedTypes \cap Closing = {})
    /\ app.progress_rx <=> app.is_converting
    /\ \A i \in DOMAIN hist.applied :
          hist.applied[i].type \in Closing => i = Len(hist.applied)

\* A job of three items was cancelled during its first item: the
\* Cancelled event was applied, the receiver is gone, and the counters
\* stay at 1 of 3.
C33_Witness ==
    /\ JobStarted
    /\ "Cancelled" \in AppliedTypes
    /\ ~app.is_converting /\ ~app.progress_rx
    /\ app.current_progress = 1
    /\ app.total_files = 3

====
